---- MODULE Spec2Model ----
(***************************************************************************)
(* Motion-language compiler of Typographer: tokenizer/parser               *)
(* (parseMotionLanguage), timing scheduler (calculateMotionTiming) and the *)
(* total duration computed by the store's updateText.                      *)
(*                                                                         *)
(* Strings are sequences of one-character strings.  Times are integers in  *)
(* hundredths of a second (2.4 s is 240), so sums are exact.               *)
(***************************************************************************)
EXTENDS Integers, Sequences, FiniteSets, TLC

VARIABLES text, pc, tokens, i, words, wordIndex, cleanText, gap, totalDuration,
          ids, call, prev, now,
          tagParts, rawTag, validation, patternMatch,
          layoutInput, config, positioned, occupiedAreas, layoutResult,
          boundsA, boundsB, overlap,
          newConfig, resized,
          textContent, timeline, currentWordIndex, isPlaying, currentTime,
          playbackSpeed, wordGap, isLooping, shortOfEnd,
          settings, syncGapWithTypographer

\* The state of the text pipeline (parse, schedule, total); ids holds the
\* id of each pushed word, the pair of wordIndex and Date.now().
pipelineVars == <<text, tokens, i, words, wordIndex, cleanText, gap, totalDuration, ids>>

\* The state around repeated calls: the number of the call in progress, the
\* result of the call before it, and the clock Date.now() reads.
repeatVars == <<call, prev, now>>

\* The state of a validation of one tag: the pieces the tag was typed from,
\* the tag string, validateMotionSyntax's verdict and whether the parser's
\* tag pattern matches the string.
validatorVars == <<tagParts, rawTag, validation, patternMatch>>

\* The state of a layout: the words passed to calculateWordPositions, the
\* layout configuration, the two arrays of layoutWords and the words
\* returned.
layoutVars == <<layoutInput, config, positioned, occupiedAreas, layoutResult>>

\* The state of a collision test: the two rectangles and what boundsOverlap
\* returned for them, in both orders and for each with itself.
collisionVars == <<boundsA, boundsB, overlap>>

\* The state of a resize: the configuration of the new canvas and the words
\* updatePositionsForResize returned.
resizeVars == <<newConfig, resized>>

\* The fields of the typographer store next to words and totalDuration
\* (the selector's and the cursor's fields, which no handler reads, are left
\* out), and the isLooping state of the Controls component.  Speeds are in
\* hundredths.  currentTime is the stored time to the hundredth of a second;
\* shortOfEnd says that the stored floating-point number, which to the
\* hundredth is totalDuration, is below totalDuration by a rounding error.
storeVars == <<textContent, timeline, currentWordIndex, isPlaying, currentTime,
               playbackSpeed, wordGap, isLooping, shortOfEnd>>

\* The motion store: its settings and the callback of setSyncGapCallback.
motionVars == <<settings, syncGapWithTypographer>>

\* The state outside the compiler, the validator and the layout.
restVars == <<collisionVars, resizeVars, storeVars, motionVars>>

\* What a step of the text pipeline leaves alone.
outsidePipeline == <<repeatVars, validatorVars, layoutVars, restVars>>

vars == <<pc, pipelineVars, repeatVars, validatorVars, layoutVars, restVars>>

(***************************************************************************)
(* Bounds and input sets                                                   *)
(***************************************************************************)
MaxPieces == 4

\* Pieces per text, and clock readings after the first, where a call is
\* repeated.
MaxRepeatPieces == 3

MaxClock == 1

\* Segments per layout.
MaxLayoutWords == 3

\* The pieces an input text is assembled from.
PieceHi      == <<"H", "i", " ">>
PieceYo      == <<"y", "o">>
PieceTag     == <<"<", "0", ".", "3", "F", "1", ".", "2", "R", "0", ".", "9", ">", " ">>
PieceRange   == <<"<", "0", "F", ".", "1", "R", ".", "5", ">">>
PieceBad     == <<"<", "9", "9", "Z", "1", "R", "0", ".", "5", ">", " ">>
PieceOpen    == <<"<">>
PieceClose   == <<">">>
PieceComma   == <<",", "\t">>
PieceSpace   == <<" ">>

Pieces == {PieceHi, PieceYo, PieceTag, PieceRange, PieceBad,
           PieceOpen, PieceClose, PieceComma, PieceSpace}

RECURSIVE Flatten(_)
Flatten(ps) == IF ps = <<>> THEN <<>> ELSE Head(ps) \o Flatten(Tail(ps))

Texts == { Flatten(ps) : ps \in UNION { [1..n -> Pieces] : n \in 0..MaxPieces } }

RepeatTexts ==
  { Flatten(ps) : ps \in UNION { [1..n -> Pieces] : n \in 0..MaxRepeatPieces } }

\* Values of the store's wordGap, in hundredths of a second: setWordGap
\* keeps it within [-2, 5].
Gaps == {-200, -100, 0, 30}

(***************************************************************************)
(* Character classes of the regular expressions                            *)
(***************************************************************************)
Digits == {"0", "1", "2", "3", "4", "5", "6", "7", "8", "9"}

Letters == {"H", "i", "y", "o", "L", "R", "F", "B", "Z",
            "e", "l", "a", "u", "t", "f", "W", "r", "d"}

\* \w
WordChars == Letters \cup Digits \cup {"_"}

\* \s
Whitespace == {" ", "\t", "\n"}

\* [LRFB]
Directions == {"L", "R", "F", "B"}

\* String.prototype.trim
RECURSIVE trim(_)
trim(s) ==
  IF s = <<>> THEN s
  ELSE IF Head(s) \in Whitespace THEN trim(Tail(s))
  ELSE IF s[Len(s)] \in Whitespace THEN trim(SubSeq(s, 1, Len(s) - 1))
  ELSE s

\* The word test taken as /^\S+$/: any non-empty token.
IsWordAnyCharacter(token) == Len(token) >= 1

\* /^\w+$/.test(token)
IsWord(token) ==
  /\ Len(token) >= 1
  /\ \A k \in 1..Len(token) : token[k] \in WordChars

\* The number pattern \d*\.?\d+ anchored on both sides.
IsNumber(s) ==
  /\ Len(s) >= 1
  /\ \A k \in 1..Len(s) : s[k] \in Digits \cup {"."}
  /\ s[Len(s)] \in Digits
  /\ Cardinality({k \in 1..Len(s) : s[k] = "."}) <= 1

\* Positions of the two direction letters when s matches
\* (\d*\.?\d+)([LRFB])(\d*\.?\d+)([LRFB])(\d*\.?\d+) anchored on both sides.
FieldSplits(s) ==
  { p \in (1..Len(s)) \X (1..Len(s)) :
      /\ p[1] < p[2]
      /\ s[p[1]] \in Directions
      /\ s[p[2]] \in Directions
      /\ IsNumber(SubSeq(s, 1, p[1] - 1))
      /\ IsNumber(SubSeq(s, p[1] + 1, p[2] - 1))
      /\ IsNumber(SubSeq(s, p[2] + 1, Len(s))) }

\* The capture groups of a match of the pattern above.
Fields(s) ==
  LET p == CHOOSE q \in FieldSplits(s) : TRUE
  IN [entrySpeedStr |-> SubSeq(s, 1, p[1] - 1),
      entryDir      |-> s[p[1]],
      durationStr   |-> SubSeq(s, p[1] + 1, p[2] - 1),
      exitDir       |-> s[p[2]],
      exitSpeedStr  |-> SubSeq(s, p[2] + 1, Len(s))]

\* token.match(/^<(\d*\.?\d+)([LRFB])(\d*\.?\d+)([LRFB])(\d*\.?\d+)>$/)
motionMatch(token) ==
  /\ Len(token) >= 2
  /\ token[1] = "<"
  /\ token[Len(token)] = ">"
  /\ FieldSplits(SubSeq(token, 2, Len(token) - 1)) # {}

DigitValue(c) ==
  CASE c = "0" -> 0 [] c = "1" -> 1 [] c = "2" -> 2 [] c = "3" -> 3
    [] c = "4" -> 4 [] c = "5" -> 5 [] c = "6" -> 6 [] c = "7" -> 7
    [] c = "8" -> 8 [] c = "9" -> 9

RECURSIVE DigitsValue(_)
DigitsValue(s) ==
  IF s = <<>> THEN 0
  ELSE 10 * DigitsValue(SubSeq(s, 1, Len(s) - 1)) + DigitValue(s[Len(s)])

\* parseFloat of a string matching the number pattern, in hundredths
\* (fractional digits beyond the second are below the model's resolution).
parseFloat(s) ==
  LET dots == {k \in 1..Len(s) : s[k] = "."}
      d    == IF dots = {} THEN Len(s) + 1 ELSE CHOOSE k \in dots : TRUE
      frac == SubSeq(s, d + 1, Len(s))
      f1   == IF Len(frac) >= 1 THEN DigitValue(frac[1]) ELSE 0
      f2   == IF Len(frac) >= 2 THEN DigitValue(frac[2]) ELSE 0
  IN 100 * DigitsValue(SubSeq(s, 1, d - 1)) + 10 * f1 + f2

(***************************************************************************)
(* cleanText and the tokenizer                                             *)
(***************************************************************************)
\* First index q >= p with s[q] = c, or 0 when there is none.
IndexFrom(s, c, p) ==
  LET hits == {q \in p..Len(s) : s[q] = c}
  IN IF hits = {} THEN 0 ELSE CHOOSE q \in hits : \A r \in hits : q <= r

\* End of the whitespace run that starts at p.
RECURSIVE RunEnd(_, _)
RunEnd(s, p) ==
  IF p < Len(s) /\ s[p + 1] \in Whitespace THEN RunEnd(s, p + 1) ELSE p

\* StripTags without the g flag: only the first match is removed.
RECURSIVE StripTagsFirstOnly(_, _)
StripTagsFirstOnly(s, p) ==
  IF p > Len(s) THEN <<>>
  ELSE IF s[p] = "<" /\ IndexFrom(s, ">", p) # 0
       THEN SubSeq(s, IndexFrom(s, ">", p) + 1, Len(s))
       ELSE <<s[p]>> \o StripTagsFirstOnly(s, p + 1)

\* text.replace(/<[^>]*>/g, '')
RECURSIVE StripTags(_, _)
StripTags(s, p) ==
  IF p > Len(s) THEN <<>>
  ELSE IF s[p] = "<" /\ IndexFrom(s, ">", p) # 0
       THEN StripTags(s, IndexFrom(s, ">", p) + 1)
       ELSE <<s[p]>> \o StripTags(s, p + 1)

\* .replace(/\s+/g, ' ')
RECURSIVE CollapseWhitespace(_, _)
CollapseWhitespace(s, p) ==
  IF p > Len(s) THEN <<>>
  ELSE IF s[p] \in Whitespace
       THEN <<" ">> \o CollapseWhitespace(s, RunEnd(s, p) + 1)
       ELSE <<s[p]>> \o CollapseWhitespace(s, p + 1)

\* CleanText without the final trim.
CleanTextNoTrim(t) == CollapseWhitespace(StripTags(t, 1), 1)

\* text.replace(/<[^>]*>/g, '').replace(/\s+/g, ' ').trim()
CleanText(t) == trim(CollapseWhitespace(StripTags(t, 1), 1))

\* text.split(/(\s+|<[^>]*>)/): the pieces between separators and the
\* captured separators, in order.  cur is the piece being accumulated.
RECURSIVE Split(_, _, _)
Split(s, p, cur) ==
  IF p > Len(s) THEN <<cur>>
  ELSE IF s[p] \in Whitespace
       THEN <<cur, SubSeq(s, p, RunEnd(s, p))>> \o Split(s, RunEnd(s, p) + 1, <<>>)
  ELSE IF s[p] = "<" /\ IndexFrom(s, ">", p) # 0
       THEN <<cur, SubSeq(s, p, IndexFrom(s, ">", p))>>
              \o Split(s, IndexFrom(s, ">", p) + 1, <<>>)
  ELSE Split(s, p + 1, Append(cur, s[p]))

\* .filter(token => token.trim())
Tokenize(t) == SelectSeq(Split(t, 1, <<>>), LAMBDA tok : trim(tok) # <<>>)

(***************************************************************************)
(* parseMotionLanguage                                                     *)
(***************************************************************************)
\* The absent motionConfig of a WordData.
NoMotion == [none |-> TRUE]

\* The MotionConfig built from the capture groups of a tag token.
MakeMotionConfig(token) ==
  LET m == Fields(SubSeq(token, 2, Len(token) - 1))
  IN [entryDirection  |-> m.entryDir,
      displayDuration |-> parseFloat(m.durationStr),
      exitDirection   |-> m.exitDir,
      entrySpeed      |-> parseFloat(m.entrySpeedStr),
      exitSpeed       |-> parseFloat(m.exitSpeedStr)]

\* LookAhead without the break after a motion tag: the loop goes on, and a
\* later tag replaces the one attached.
RECURSIVE LookAheadNoBreak(_, _, _)
LookAheadNoBreak(toks, j, textParts) ==
  IF j > Len(toks)
  THEN [textParts |-> textParts, motionConfig |-> NoMotion, j |-> j]
  ELSE IF motionMatch(trim(toks[j]))
  THEN LET r == LookAheadNoBreak(toks, j + 1, textParts)
       IN [r EXCEPT !.motionConfig =
             IF r.motionConfig # NoMotion THEN r.motionConfig
             ELSE MakeMotionConfig(trim(toks[j]))]
  ELSE IF IsWord(trim(toks[j]))
  THEN LookAheadNoBreak(toks, j + 1, Append(textParts, trim(toks[j])))
  ELSE [textParts |-> textParts, motionConfig |-> NoMotion, j |-> j]

\* The look-ahead loop: from token j on, absorb word tokens into textParts
\* until a motion tag (attached, and passed over) or any other token.
RECURSIVE LookAhead(_, _, _)
LookAhead(toks, j, textParts) ==
  IF j > Len(toks)
  THEN [textParts |-> textParts, motionConfig |-> NoMotion, j |-> j]
  ELSE IF motionMatch(trim(toks[j]))
  THEN [textParts |-> textParts,
        motionConfig |-> MakeMotionConfig(trim(toks[j])), j |-> j + 1]
  ELSE IF IsWord(trim(toks[j]))
  THEN LookAhead(toks, j + 1, Append(textParts, trim(toks[j])))
  ELSE [textParts |-> textParts, motionConfig |-> NoMotion, j |-> j]

\* textParts.join(' ')
RECURSIVE Join(_)
Join(parts) ==
  IF parts = <<>> THEN <<>>
  ELSE IF Len(parts) = 1 THEN parts[1]
  ELSE parts[1] \o <<" ">> \o Join(Tail(parts))

\* The WordData pushed for a text group.
MakeWord(groupedText, motionConfig, index) ==
  [text         |-> groupedText,
   animation    |-> IF motionConfig # NoMotion THEN "motionLanguage" ELSE "fadeIn",
   motionConfig |-> motionConfig,
   startTime    |-> 0,
   duration     |-> 60,
   position     |-> [x |-> 0, y |-> 0],
   index        |-> index]

\* ParseIter whose final else branch leaves the cursor where it is.
ParseIterStuck(toks, k, index) ==
  IF motionMatch(trim(toks[k]))
  THEN [pushed |-> <<>>, next |-> k + 1]
  ELSE IF IsWord(trim(toks[k]))
  THEN LET g == LookAhead(toks, k + 1, <<trim(toks[k])>>)
       IN [pushed |-> <<MakeWord(Join(g.textParts), g.motionConfig, index)>>,
           next   |-> g.j]
  ELSE [pushed |-> <<>>, next |-> k]

\* One iteration of the token loop at cursor k: the words pushed and the
\* next cursor.
ParseIter(toks, k, index) ==
  IF motionMatch(trim(toks[k]))
  THEN [pushed |-> <<>>, next |-> k + 1]
  ELSE IF IsWord(trim(toks[k]))
  THEN LET g == LookAhead(toks, k + 1, <<trim(toks[k])>>)
       IN [pushed |-> <<MakeWord(Join(g.textParts), g.motionConfig, index)>>,
           next   |-> g.j]
  ELSE [pushed |-> <<>>, next |-> k + 1]

\* The whole token loop, from cursor k with the words ws pushed so far.
RECURSIVE ParseLoop(_, _, _)
ParseLoop(toks, k, ws) ==
  IF k > Len(toks) THEN ws
  ELSE LET r == ParseIter(toks, k, Len(ws))
       IN ParseLoop(toks, r.next, ws \o r.pushed)

parseMotionLanguage(t) ==
  [words |-> ParseLoop(Tokenize(t), 1, <<>>), cleanText |-> CleanText(t)]

(***************************************************************************)
(* validateMotionSyntax                                                    *)
(***************************************************************************)
\* motionTag.replace(/[<>]/g, '')
RemoveBrackets(s) == SelectSeq(s, LAMBDA c : c \notin {"<", ">"})

\* validateMotionSyntax with the upper bounds taken as exclusive.
validateMotionSyntaxExclusive(motionTag) ==
  LET content == RemoveBrackets(motionTag)
  IN /\ FieldSplits(content) # {}
     /\ LET m == Fields(content)
            entrySpeed == parseFloat(m.entrySpeedStr)
            duration   == parseFloat(m.durationStr)
            exitSpeed  == parseFloat(m.exitSpeedStr)
        IN /\ ~(entrySpeed <= 0 \/ entrySpeed >= 1000)
           /\ m.entryDir \in {"L", "R", "F", "B"}
           /\ ~(duration <= 0 \/ duration >= 3000)
           /\ m.exitDir \in {"L", "R", "F", "B"}
           /\ ~(exitSpeed <= 0 \/ exitSpeed >= 1000)

validateMotionSyntax(motionTag) ==
  LET content == RemoveBrackets(motionTag)
  IN /\ FieldSplits(content) # {}
     /\ LET m == Fields(content)
            entrySpeed == parseFloat(m.entrySpeedStr)
            duration   == parseFloat(m.durationStr)
            exitSpeed  == parseFloat(m.exitSpeedStr)
        IN /\ ~(entrySpeed <= 0 \/ entrySpeed > 1000)
           /\ m.entryDir \in {"L", "R", "F", "B"}
           /\ ~(duration <= 0 \/ duration > 3000)
           /\ m.exitDir \in {"L", "R", "F", "B"}
           /\ ~(exitSpeed <= 0 \/ exitSpeed > 1000)

(***************************************************************************)
(* Word positioning (calculateWordPositions)                               *)
(*                                                                         *)
(* Lengths are integers in hundredths of a pixel: 800 px = 80000, the      *)
(* character width 19.2 px = 1920, the spiral step 20 px = 2000.  The      *)
(* values of Math.random() are integers in hundredths.                     *)
(***************************************************************************)
MathMin(a, b) == IF a < b THEN a ELSE b

MathMax(a, b) == IF a > b THEN a ELSE b

estimateWordDimensions(t, cfg) ==
  LET fontSize  == 3200
      charWidth == (fontSize * 6) \div 10
  IN [width    |-> Len(t) * charWidth,
      height   |-> (fontSize * 12) \div 10,
      fontSize |-> fontSize]

createLayoutConfig(canvasWidth, canvasHeight) ==
  [canvasWidth    |-> canvasWidth,
   canvasHeight   |-> canvasHeight,
   margin         |-> (MathMin(canvasWidth, canvasHeight) * 5) \div 100,
   minWordSpacing |-> 2000,
   lineHeight     |-> 4000,
   centerBias     |-> 70]

createCollisionBounds(position, dimensions, spacing) ==
  [left   |-> position.x - spacing,
   top    |-> position.y - spacing,
   right  |-> position.x + dimensions.width + spacing,
   bottom |-> position.y + dimensions.height + spacing]

\* boundsOverlap with rectangles that only touch taken as apart.
boundsOverlapOpen(a, b) ==
  ~(a.right <= b.left \/ a.left >= b.right \/ a.bottom <= b.top \/ a.top >= b.bottom)

boundsOverlap(a, b) ==
  ~(a.right < b.left \/ a.left > b.right \/ a.bottom < b.top \/ a.top > b.bottom)

\* isPositionValid without the collision loop: the canvas bounds only.
isPositionValidBoundsOnly(position, dimensions, cfg, occupied) ==
  ~(\/ position.x < cfg.margin
    \/ position.y < cfg.margin
    \/ position.x + dimensions.width > cfg.canvasWidth - cfg.margin
    \/ position.y + dimensions.height > cfg.canvasHeight - cfg.margin)

isPositionValid(position, dimensions, cfg, occupied) ==
  /\ ~(\/ position.x < cfg.margin
       \/ position.y < cfg.margin
       \/ position.x + dimensions.width > cfg.canvasWidth - cfg.margin
       \/ position.y + dimensions.height > cfg.canvasHeight - cfg.margin)
  /\ LET bounds == createCollisionBounds(position, dimensions, cfg.minWordSpacing)
     IN \A n \in 1..Len(occupied) : ~boundsOverlap(bounds, occupied[n])

\* radius * cos(pi/4), rounded to the hundredth of a pixel.
Diagonal(radius) == (radius * 70711 + 50000) \div 100000

\* Math.cos(angle) * radius for angle = (k / 8) * 2 * Math.PI.
CosTimes(k, radius) ==
  CASE k = 0 -> radius
    [] k \in {1, 7} -> Diagonal(radius)
    [] k \in {2, 6} -> 0
    [] k \in {3, 5} -> 0 - Diagonal(radius)
    [] k = 4 -> 0 - radius

\* Math.sin(angle) * radius for angle = (k / 8) * 2 * Math.PI.
SinTimes(k, radius) ==
  CASE k \in {0, 4} -> 0
    [] k \in {1, 3} -> Diagonal(radius)
    [] k = 2 -> radius
    [] k \in {5, 7} -> 0 - Diagonal(radius)
    [] k = 6 -> 0 - radius

\* Called with numPoints = 8 only.
generateSpiralPositions(centerX, centerY, radius, numPoints) ==
  [n \in 1..numPoints |->
     [x |-> centerX + CosTimes(n - 1, radius),
      y |-> centerY + SinTimes(n - 1, radius)]]

\* The loops of calculateFlowPosition from radius on, and the fallback
\* after them.  The inner loop returns the first valid candidate of the 8
\* positions of the radius.
RECURSIVE SpiralSearch(_, _, _, _)
SpiralSearch(radius, dimensions, cfg, occupied) ==
  LET centerX == cfg.canvasWidth \div 2
      centerY == cfg.canvasHeight \div 2
  IN IF ~(radius < MathMin(cfg.canvasWidth, cfg.canvasHeight) \div 2)
     THEN [x |-> centerX - dimensions.width \div 2,
           y |-> centerY - dimensions.height \div 2]
     ELSE LET positions == generateSpiralPositions(centerX, centerY, radius, 8)
              candidate == [n \in 1..8 |->
                              [x |-> positions[n].x - dimensions.width \div 2,
                               y |-> positions[n].y - dimensions.height \div 2]]
              valid == { n \in 1..8 :
                           isPositionValid(candidate[n], dimensions, cfg, occupied) }
          IN IF valid # {}
             THEN candidate[CHOOSE n \in valid : \A m \in valid : n <= m]
             ELSE SpiralSearch(radius + 2000, dimensions, cfg, occupied)

calculateFlowPosition(word, dimensions, cfg, occupied) ==
  SpiralSearch(0, dimensions, cfg, occupied)

\* random1 and random2 are the two values of Math.random().
calculateMotionLanguagePosition(word, dimensions, cfg, random1, random2) ==
  LET centerX == cfg.canvasWidth \div 2
      centerY == cfg.canvasHeight \div 2
      offsetRange == MathMin(cfg.canvasWidth, cfg.canvasHeight) \div 10
      randomX == ((random1 - 50) * offsetRange) \div 100
      randomY == ((random2 - 50) * offsetRange) \div 100
  IN [x |-> centerX + randomX - dimensions.width \div 2,
      y |-> centerY + randomY - dimensions.height \div 2]

\* constrainToCanvas that clamps against the left and top margins only.
constrainToCanvasLeftTop(position, dimensions, cfg) ==
  [x |-> MathMax(cfg.margin, position.x), y |-> MathMax(cfg.margin, position.y)]

\* constrainToCanvas taken as the identity.
constrainToCanvasNot(position, dimensions, cfg) == position

constrainToCanvas(position, dimensions, cfg) ==
  [x |-> MathMax(cfg.margin,
                 MathMin(position.x, cfg.canvasWidth - dimensions.width - cfg.margin)),
   y |-> MathMax(cfg.margin,
                 MathMin(position.y, cfg.canvasHeight - dimensions.height - cfg.margin))]

\* { ...word, position }
WithPosition(word, position) ==
  [text |-> word.text, animation |-> word.animation,
   motionConfig |-> word.motionConfig, startTime |-> word.startTime,
   duration |-> word.duration, index |-> word.index, position |-> position]

RECURSIVE GCD(_, _)
\* The greatest common divisor, by which a ratio of lengths is reduced.
GCD(a, b) == IF b = 0 THEN a ELSE GCD(b, a % b)

\* x * (newLength / oldLength), rounded to the hundredth of a pixel;
\* positions are not negative.
Scale(x, newLength, oldLength) ==
  LET unit == GCD(newLength, oldLength)
      num  == newLength \div unit
      den  == oldLength \div unit
  IN (2 * x * num + den) \div (2 * den)

\* updatePositionsForResize with both axes scaled by scaleX.
updatePositionsForResizeUniform(ws, oldConfig, newCfg) ==
  [n \in 1..Len(ws) |->
     WithPosition(ws[n],
       [x |-> Scale(ws[n].position.x, newCfg.canvasWidth, oldConfig.canvasWidth),
        y |-> Scale(ws[n].position.y, newCfg.canvasWidth, oldConfig.canvasWidth)])]

updatePositionsForResize(ws, oldConfig, newCfg) ==
  [n \in 1..Len(ws) |->
     WithPosition(ws[n],
       [x |-> Scale(ws[n].position.x, newCfg.canvasWidth, oldConfig.canvasWidth),
        y |-> Scale(ws[n].position.y, newCfg.canvasHeight, oldConfig.canvasHeight)])]

\* Values of Math.random(), in hundredths.
Randoms == {0, 99}

\* The two values Math.random() returns to a call of
\* calculateMotionLanguagePosition, drawn one after the other.
RandomPairs == {[random1 |-> r1, random2 |-> r2] : r1 \in Randoms, r2 \in Randoms}

\* The values Math.random() returns to a layout of ws: two for each word
\* calculateMotionLanguagePosition is called for.
RandomChoices(ws) ==
  [ {n \in 1..Len(ws) : ws[n].animation = "motionLanguage" /\ ws[n].motionConfig # NoMotion}
      -> RandomPairs ]

\* layoutWords as a function: the words placed so far and their bounds.
RECURSIVE layoutWords(_, _, _, _, _)
layoutWords(ws, cfg, randoms, placed, occupied) ==
  IF Len(placed) = Len(ws) THEN placed
  ELSE LET word == ws[Len(placed) + 1]
           dimensions == estimateWordDimensions(word.text, cfg)
           position ==
             IF word.animation = "motionLanguage" /\ word.motionConfig # NoMotion
             THEN calculateMotionLanguagePosition(word, dimensions, cfg,
                                                  randoms[Len(placed) + 1].random1,
                                                  randoms[Len(placed) + 1].random2)
             ELSE calculateFlowPosition(word, dimensions, cfg, occupied)
           constrained == constrainToCanvas(position, dimensions, cfg)
       IN layoutWords(ws, cfg, randoms,
                      Append(placed, WithPosition(word, constrained)),
                      Append(occupied,
                             createCollisionBounds(constrained, dimensions,
                                                   cfg.minWordSpacing)))

calculateWordPositions(ws, cfg, randoms) ==
  IF Len(ws) = 0 THEN <<>> ELSE layoutWords(ws, cfg, randoms, <<>>, <<>>)

(***************************************************************************)
(* calculateMotionTiming (both passes) and the total duration              *)
(***************************************************************************)
\* Default animation timing for non-motion words: 2.0 s.
defaultDuration == 200

\* x || 0.8
OrDefault(x) == IF x = 0 THEN 80 ELSE x

\* The duration the timing pass gives one word.
WordDuration(word) ==
  IF word.motionConfig # NoMotion
  THEN OrDefault(word.motionConfig.entrySpeed)
         + word.motionConfig.displayDuration
         + OrDefault(word.motionConfig.exitSpeed)
  ELSE defaultDuration

\* TimingPass with the cursor clamped at zero.
RECURSIVE TimingPassClamped(_, _, _, _)
TimingPassClamped(ws, k, cursor, gapBetweenWords) ==
  IF k > Len(ws) THEN <<>>
  ELSE LET advanced == cursor + WordDuration(ws[k]) + gapBetweenWords
       IN <<[ws[k] EXCEPT !.startTime = cursor, !.duration = WordDuration(ws[k]),
               !.position = [x |-> 0, y |-> 0]]>>
            \o TimingPassClamped(ws, k + 1,
                                 IF advanced < 0 THEN 0 ELSE advanced,
                                 gapBetweenWords)

\* TimingPass with the cursor advanced by the gap alone.
RECURSIVE TimingPassStagger(_, _, _, _)
TimingPassStagger(ws, k, cursor, gapBetweenWords) ==
  IF k > Len(ws) THEN <<>>
  ELSE <<[ws[k] EXCEPT !.startTime = cursor, !.duration = WordDuration(ws[k]),
               !.position = [x |-> 0, y |-> 0]]>>
         \o TimingPassStagger(ws, k + 1, cursor + gapBetweenWords,
                              gapBetweenWords)

\* TimingPass with a negative gap taken as zero.
RECURSIVE TimingPassNoOverlap(_, _, _, _)
TimingPassNoOverlap(ws, k, cursor, gapBetweenWords) ==
  IF k > Len(ws) THEN <<>>
  ELSE <<[ws[k] EXCEPT !.startTime = cursor, !.duration = WordDuration(ws[k]),
               !.position = [x |-> 0, y |-> 0]]>>
         \o TimingPassNoOverlap(ws, k + 1,
                                cursor + WordDuration(ws[k])
                                  + (IF gapBetweenWords < 0 THEN 0 ELSE gapBetweenWords),
                                gapBetweenWords)

\* The forEach of the timing pass from word k on, cursor (currentTime in the source) being the
\* running cursor.
RECURSIVE TimingPass(_, _, _, _)
TimingPass(ws, k, cursor, gapBetweenWords) ==
  IF k > Len(ws) THEN <<>>
  ELSE <<[ws[k] EXCEPT !.startTime = cursor, !.duration = WordDuration(ws[k]),
               !.position = [x |-> 0, y |-> 0]]>>
         \o TimingPass(ws, k + 1,
                       cursor + WordDuration(ws[k]) + gapBetweenWords,
                       gapBetweenWords)

\* The first pass: the array calculatedWords, with cursor starting at 0.
calculatedWords(ws, gapBetweenWords) == TimingPass(ws, 1, 0, gapBetweenWords)

(***************************************************************************)
(* The texts and the arguments of the store                                *)
(***************************************************************************)
\* An untagged word closed by a comma.
LayoutHi     == <<"H", "i", " ", ",", " ">>

\* Words per text of the store.
MaxStoreWords == 2

\* The pieces of the store's texts: an untagged word closed by a comma and
\* a tagged word.
StorePieces == <<LayoutHi, PieceHi \o PieceTag>>

\* The texts of the store: tagged and untagged words in turn, beginning
\* with either.
StoreTexts ==
  { Flatten([k \in 1..n |-> StorePieces[((k + first) % 2) + 1]]) :
      n \in 0..MaxStoreWords, first \in 0..1 }

\* 'Hello <0.3F1.2R0.9> Beautiful <0.5L1.8F0.4> World <0.8R2.0B1.2>'
defaultText ==
  <<"H", "e", "l", "l", "o", " ", "<", "0", ".", "3", "F", "1", ".", "2", "R", "0", ".", "9", ">", " ",
    "B", "e", "a", "u", "t", "i", "f", "u", "l", " ",
    "<", "0", ".", "5", "L", "1", ".", "8", "F", "0", ".", "4", ">", " ",
    "W", "o", "r", "l", "d", " ", "<", "0", ".", "8", "R", "2", ".", "0", "B", "1", ".", "2", ">">>

\* parseMotionLanguage(t).words for each of the texts.
ParsedWords == [t \in StoreTexts \cup {defaultText} |-> parseMotionLanguage(t).words]

\* Arguments of setWordGap, of seekTo and of setPlaybackSpeed, in
\* hundredths.
GapArguments == {-300, 700}

SeekTimes == {-100, 130, 100000}

SpeedArguments == {5, 500}

\* The animations of the selector.
AnimationChoices == {"fadeIn", "motionLanguage"}

\* The clamp of setWordGap without its lower end.
ClampGapUpperOnly(g) == MathMin(g, 500)

\* The gap setWordGap(g) stores.
ClampGap(g) == MathMax(-200, MathMin(g, 500))

\* The values the store's wordGap takes.
StoredGaps == {0} \cup {ClampGap(g) : g \in GapArguments}

\* The lists assignAnimation makes of ws.
Assigned(ws) ==
  {[ws EXCEPT ![k].animation = animation] :
     k \in 1..Len(ws), animation \in AnimationChoices}

\* The lists after up to n calls of assignAnimation.
RECURSIVE AssignedTimes(_, _)
AssignedTimes(lists, n) ==
  IF n = 0 THEN lists
  ELSE UNION { {ws} \cup AssignedTimes(Assigned(ws), n - 1) : ws \in lists }

\* The lists of words the store passes to calculateMotionTiming: the words
\* of a text, each with the animation parsed or one assigned.
StoreWordLists ==
  UNION { AssignedTimes({ws}, Len(ws)) :
            ws \in {ParsedWords[t] : t \in StoreTexts \cup {defaultText}} }

\* The second pass on the lists of the store, computed once: for each
\* array calculatedWords and each choice of random values, what
\* calculateWordPositions returns on the default canvas of 800 by 600.
StoreLayouts ==
  [key \in UNION { { <<calculatedWords(ws, g), randoms>> :
                       randoms \in RandomChoices(ws) } :
                   ws \in StoreWordLists, g \in StoredGaps } |->
     calculateWordPositions(key[1], createLayoutConfig(80000, 60000), key[2])]

\* table[key] where the table has the key, and otherwise computed.
Tabulated(table, key, computed) ==
  IF key \in DOMAIN table THEN table[key] ELSE computed

\* The second pass: the words laid out on the default canvas of 800 by 600.
SecondPass(timed, randoms) ==
  Tabulated(StoreLayouts, <<timed, randoms>>,
            calculateWordPositions(timed, createLayoutConfig(80000, 60000), randoms))

\* Both passes; randoms are the values Math.random() returns to the second
\* one.
calculateMotionTiming(ws, gapBetweenWords, randoms) ==
  IF Len(ws) = 0 THEN <<>>
  ELSE SecondPass(calculatedWords(ws, gapBetweenWords), randoms)

\* The arrays calculateMotionTiming can return on the lists of the store,
\* computed once.
StoreTimings ==
  [timed \in {key[1] : key \in DOMAIN StoreLayouts} |->
     {StoreLayouts[<<timed, randoms>>] : randoms \in RandomChoices(timed)}]

\* The arrays calculateMotionTiming(ws, gapBetweenWords) can return, one
\* for each choice of random values.
MotionTimings(ws, gapBetweenWords) ==
  LET timed == calculatedWords(ws, gapBetweenWords)
  IN IF timed \in DOMAIN StoreTimings
     THEN StoreTimings[timed]
     ELSE {calculateMotionTiming(ws, gapBetweenWords, randoms) :
             randoms \in RandomChoices(ws)}

RECURSIVE MaxOf(_, _)
MaxOf(s, acc) ==
  IF s = <<>> THEN acc
  ELSE MaxOf(Tail(s), IF Head(s) > acc THEN Head(s) ELSE acc)

\* TotalDuration taken as the end of the last word.
TotalDurationOfLast(ws) ==
  IF ws = <<>> THEN 0 ELSE ws[Len(ws)].startTime + ws[Len(ws)].duration

\* Math.max(...wordsWithTiming.map(word => word.startTime + word.duration), 0)
TotalDuration(ws) ==
  MaxOf([k \in 1..Len(ws) |-> ws[k].startTime + ws[k].duration], 0)

\* calculateTotalDuration of the timing calculator.
calculateTotalDuration(ws) ==
  IF Len(ws) = 0 THEN 0
  ELSE MaxOf(Tail([k \in 1..Len(ws) |-> ws[k].startTime + ws[k].duration]),
             ws[1].startTime + ws[1].duration)

(***************************************************************************)
(* The pipeline of updateText, one step at a time                          *)
(***************************************************************************)
\* No call has returned yet.
NoResult == [none |-> TRUE]

\* No layout is in progress.
NoLayout ==
  /\ layoutInput = <<>>
  /\ config = [none |-> TRUE]
  /\ positioned = <<>>
  /\ occupiedAreas = <<>>
  /\ layoutResult = <<>>

\* No store has been created.
NoStore ==
  /\ textContent = <<>>
  /\ timeline = <<>>
  /\ currentWordIndex = -1
  /\ isPlaying = FALSE
  /\ currentTime = 0
  /\ playbackSpeed = 100
  /\ wordGap = 0
  /\ isLooping = TRUE
  /\ shortOfEnd = FALSE
  /\ settings = NoResult
  /\ syncGapWithTypographer = "null"

\* No collision test and no resize is in progress.
NoRest ==
  /\ boundsA = NoResult
  /\ boundsB = NoResult
  /\ overlap = NoResult
  /\ newConfig = NoResult
  /\ resized = <<>>
  /\ NoStore

\* No tag is under validation.
NoValidation ==
  /\ tagParts = <<>>
  /\ rawTag = <<>>
  /\ validation = "none"
  /\ patternMatch = "none"

Init ==
  /\ text \in Texts
  /\ pc = "input"
  /\ tokens = <<>>
  /\ i = 1
  /\ words = <<>>
  /\ wordIndex = 0
  /\ cleanText = <<>>
  /\ gap = 0
  /\ totalDuration = 0
  /\ ids = <<>>
  /\ call = 1
  /\ prev = NoResult
  /\ now = 0
  /\ NoValidation
  /\ NoLayout
  /\ NoRest

\* ParseBegin with the words array kept from the call before.
ParseBeginKeepsWords ==
  /\ pc = "input"
  /\ cleanText' = CleanText(text)
  /\ tokens' = Tokenize(text)
  /\ i' = 1
  /\ wordIndex' = 0
  /\ pc' = "loop"
  /\ UNCHANGED <<text, gap, totalDuration, words, ids>>
  /\ UNCHANGED outsidePipeline

\* parseMotionLanguage up to the loop: cleanText, tokens, i = 0.
ParseBegin ==
  /\ pc = "input"
  /\ cleanText' = CleanText(text)
  /\ tokens' = Tokenize(text)
  /\ i' = 1
  /\ words' = <<>>
  /\ ids' = <<>>
  /\ wordIndex' = 0
  /\ pc' = "loop"
  /\ UNCHANGED <<text, gap, totalDuration>>
  /\ UNCHANGED outsidePipeline

\* Loop iteration on a motion tag: skipped.
SkipMotionTag ==
  /\ pc = "loop"
  /\ i <= Len(tokens)
  /\ motionMatch(trim(tokens[i]))
  /\ i' = ParseIter(tokens, i, wordIndex).next
  /\ UNCHANGED <<text, pc, tokens, words, wordIndex, cleanText, gap, totalDuration, ids>>
  /\ UNCHANGED outsidePipeline

\* Loop iteration on a word: the group is collected and pushed.
GroupWords ==
  /\ pc = "loop"
  /\ i <= Len(tokens)
  /\ ~motionMatch(trim(tokens[i]))
  /\ IsWord(trim(tokens[i]))
  /\ LET r == ParseIter(tokens, i, wordIndex)
     IN /\ words' = words \o r.pushed
        /\ ids' = ids \o [n \in 1..Len(r.pushed) |-> <<wordIndex, now>>]
        /\ wordIndex' = wordIndex + 1
        /\ i' = r.next
  /\ UNCHANGED <<text, pc, tokens, cleanText, gap, totalDuration>>
  /\ UNCHANGED outsidePipeline

\* Loop iteration on any other token: skipped.
SkipNonWord ==
  /\ pc = "loop"
  /\ i <= Len(tokens)
  /\ ~motionMatch(trim(tokens[i]))
  /\ ~IsWord(trim(tokens[i]))
  /\ i' = ParseIter(tokens, i, wordIndex).next
  /\ UNCHANGED <<text, pc, tokens, words, wordIndex, cleanText, gap, totalDuration, ids>>
  /\ UNCHANGED outsidePipeline

\* The loop ends and parseMotionLanguage returns.
ParseReturn ==
  /\ pc = "loop"
  /\ ~(i <= Len(tokens))
  /\ pc' = "parsed"
  /\ UNCHANGED <<text, tokens, i, words, wordIndex, cleanText, gap, totalDuration, ids>>
  /\ UNCHANGED outsidePipeline

\* calculateMotionTiming(words, state.wordGap): the gap is the one the store
\* holds, and the same at a repeated call; the second pass draws its
\* random values anew at every call.
Schedule ==
  /\ pc = "parsed"
  /\ \E g \in (IF call = 1 THEN Gaps ELSE {gap}) :
       \E randoms \in RandomChoices(words) :
         /\ gap' = g
         /\ words' = calculateMotionTiming(words, g, randoms)
  /\ pc' = "timed"
  /\ UNCHANGED <<text, tokens, i, wordIndex, cleanText, totalDuration, ids>>
  /\ UNCHANGED outsidePipeline

\* The total duration of the scheduled words.
ComputeTotal ==
  /\ pc = "timed"
  /\ totalDuration' = TotalDuration(words)
  /\ pc' = "done"
  /\ UNCHANGED <<text, tokens, i, words, wordIndex, cleanText, gap, ids>>
  /\ UNCHANGED outsidePipeline

Next ==
  \/ ParseBegin
  \/ SkipMotionTag
  \/ GroupWords
  \/ SkipNonWord
  \/ ParseReturn
  \/ Schedule
  \/ ComputeTotal

Spec == Init /\ [][Next]_vars

TypeOK ==
  /\ pc \in {"input", "loop", "parsed", "timed", "done"}
  /\ i \in 1..(Len(tokens) + 1)
  /\ gap \in Gaps

(***************************************************************************)
(* Notions the properties are stated in                                    *)
(***************************************************************************)
Parsed == pc \in {"parsed", "timed", "done"}

Timed == pc \in {"timed", "done"}

EndTime(w) == w.startTime + w.duration

\* A token delimited by brackets.
BracketToken(tok) == Len(tok) >= 2 /\ tok[1] = "<" /\ tok[Len(tok)] = ">"

\* A tag token of the 5-field grammar that validation accepts.
ValidTagToken(tok) == motionMatch(tok) /\ validateMotionSyntax(tok)

\* The maximal runs <<first, last>> of consecutive word tokens.
WordRuns(toks) ==
  { r \in (1..Len(toks)) \X (1..Len(toks)) :
      /\ r[1] <= r[2]
      /\ \A k \in r[1]..r[2] : IsWord(toks[k])
      /\ (r[1] = 1 \/ ~IsWord(toks[r[1] - 1]))
      /\ (r[2] = Len(toks) \/ ~IsWord(toks[r[2] + 1])) }

\* The n-th run in source order.
NthRun(toks, n) ==
  CHOOSE r \in WordRuns(toks) :
    Cardinality({q \in WordRuns(toks) : q[1] < r[1]}) = n - 1

\* Text and tag of every segment, timing aside.
Shape(ws) == [k \in 1..Len(ws) |-> <<ws[k].text, ws[k].motionConfig>>]

RemoveAt(s, k) == SubSeq(s, 1, k - 1) \o SubSeq(s, k + 1, Len(s))

\* Position p of t lies inside a bracket-delimited substring: some '<' at or
\* before p with no '>' between it and p, and some '>' at or after p.
InBrackets(t, p) ==
  /\ \E a \in 1..p : t[a] = "<" /\ \A b \in a..(p - 1) : t[b] # ">"
  /\ \E e \in p..Len(t) : t[e] = ">"

\* The positions of t that hold a character outside brackets: visible
\* characters and whitespace.
Kept(t) == {p \in 1..Len(t) : t[p] \notin Whitespace /\ ~InBrackets(t, p)}

OutsideWhitespace(t) == {p \in 1..Len(t) : t[p] \in Whitespace /\ ~InBrackets(t, p)}

\* The characters of t at the positions kept, from position p on, in order,
\* one space between two of them exactly when a position of spaces lies
\* between them.
RECURSIVE Assemble(_, _, _, _)
Assemble(t, kept, spaces, p) ==
  IF p > Len(t) THEN <<>>
  ELSE IF p \notin kept THEN Assemble(t, kept, spaces, p + 1)
  ELSE LET sep == \E w \in spaces :
                    /\ w < p
                    /\ \E q \in kept : q < w
                    /\ \A q \in kept : ~(w < q /\ q < p)
       IN (IF sep THEN <<" ">> ELSE <<>>) \o <<t[p]>>
            \o Assemble(t, kept, spaces, p + 1)

\* The visible characters of t, whitespace outside brackets collapsed.
VisibleText(t) == Assemble(t, Kept(t), OutsideWhitespace(t), 1)

(***************************************************************************)
(* C1: parse groups every maximal run of consecutive word tokens into one  *)
(* segment whose text is the words joined by single spaces, and a segment  *)
(* carries a tag if and only if a valid tag token immediately follows the  *)
(* last word of its run (the tag then has that token's five fields).       *)
(***************************************************************************)
C1_GroupingAndValidTag ==
  Parsed =>
    /\ Len(words) = Cardinality(WordRuns(tokens))
    /\ \A n \in 1..Len(words) :
         LET r == NthRun(tokens, n)
         IN /\ words[n].text = Join(SubSeq(tokens, r[1], r[2]))
            /\ (words[n].motionConfig # NoMotion)
                 <=> (r[2] < Len(tokens) /\ ValidTagToken(tokens[r[2] + 1]))
            /\ words[n].motionConfig # NoMotion
                 => words[n].motionConfig = MakeMotionConfig(tokens[r[2] + 1])

(***************************************************************************)
(* C1, the grouping alone: the same statement with "a token matching the   *)
(* parser's tag pattern" in place of "a valid tag token".                  *)
(***************************************************************************)
C1_GroupingByPattern ==
  Parsed =>
    /\ Len(words) = Cardinality(WordRuns(tokens))
    /\ \A n \in 1..Len(words) :
         LET r == NthRun(tokens, n)
         IN /\ words[n].text = Join(SubSeq(tokens, r[1], r[2]))
            /\ words[n].index = n - 1
            /\ (words[n].motionConfig # NoMotion)
                 <=> (r[2] < Len(tokens) /\ motionMatch(tokens[r[2] + 1]))
            /\ words[n].motionConfig # NoMotion
                 => words[n].motionConfig = MakeMotionConfig(tokens[r[2] + 1])

(***************************************************************************)
(* C2: a bracket-delimited token that is not a well-formed tag (such as    *)
(* <99Z1R0.5>) is treated as absent: the segment list is the one parse     *)
(* gives without that token, so the words around it form one untagged      *)
(* segment, scheduled with the default duration.                           *)
(***************************************************************************)
C2_MalformedTagAbsent ==
  Parsed =>
    \A k \in 1..Len(tokens) :
      (BracketToken(tokens[k]) /\ ~motionMatch(tokens[k]))
        => /\ Shape(words) = Shape(ParseLoop(RemoveAt(tokens, k), 1, <<>>))
           /\ (k = 2 /\ Len(tokens) = 3 /\ IsWord(tokens[1]) /\ IsWord(tokens[3]))
                => /\ Len(words) = 1
                   /\ words[1].text = tokens[1] \o <<" ">> \o tokens[3]
                   /\ words[1].motionConfig = NoMotion
                   /\ Timed => words[1].duration = 200

(***************************************************************************)
(* C3: every tag that parse attaches to a segment is the tag of a token    *)
(* that validateMotionSyntax accepts (no out-of-range field is attached).  *)
(***************************************************************************)
C3_AttachedTagsValid ==
  Parsed =>
    \A n \in 1..Len(words) :
      words[n].motionConfig # NoMotion
        => \E k \in 1..Len(tokens) :
             /\ motionMatch(tokens[k])
             /\ MakeMotionConfig(tokens[k]) = words[n].motionConfig
             /\ validateMotionSyntax(tokens[k])

(***************************************************************************)
(* C4: the first segment starts at 0 and every next one at the previous    *)
(* start + duration + gap, for every gap, negative ones included, with no  *)
(* clamping at zero; untagged segments get duration 2.0.                   *)
(***************************************************************************)
C4_CursorRecurrence ==
  Timed =>
    /\ Len(words) > 0 => words[1].startTime = 0
    /\ \A n \in 1..(Len(words) - 1) :
         words[n + 1].startTime = words[n].startTime + words[n].duration + gap
    /\ \A n \in 1..Len(words) :
         words[n].motionConfig = NoMotion => words[n].duration = 200

\* A gap more negative than a duration: the next start is before the
\* previous one, and negative.
C4_Witness ==
  /\ Timed
  /\ gap < 0
  /\ \E n \in 1..(Len(words) - 1) :
       /\ words[n + 1].startTime < words[n].startTime
       /\ words[n + 1].startTime < 0

(***************************************************************************)
(* C5: a tagged segment's duration is exactly entrySpeed + displayDuration *)
(* + exitSpeed of its tag, no default being substituted for a field.       *)
(***************************************************************************)
C5_TaggedDurationIsSum ==
  Timed =>
    \A n \in 1..Len(words) :
      words[n].motionConfig # NoMotion
        => words[n].duration = words[n].motionConfig.entrySpeed
                                 + words[n].motionConfig.displayDuration
                                 + words[n].motionConfig.exitSpeed

(***************************************************************************)
(* C6: for gap >= 0 every segment starts no earlier than the end of the    *)
(* previous one.                                                           *)
(***************************************************************************)
C6_Monotonic ==
  (Timed /\ gap >= 0) =>
    \A n \in 1..(Len(words) - 1) :
      words[n + 1].startTime >= EndTime(words[n])

\* A tagged segment followed by another segment, scheduled with a positive gap.
C6_Witness ==
  /\ Timed
  /\ gap > 0
  /\ Len(words) >= 2
  /\ words[1].motionConfig # NoMotion
  /\ words[2].startTime = EndTime(words[1]) + gap

(***************************************************************************)
(* C7, as stated: for gap < 0 there is an adjacent pair whose second       *)
(* segment starts before the first ends, by exactly |gap|.                 *)
(***************************************************************************)
C7_OverlapExists ==
  (Timed /\ gap < 0) =>
    \E n \in 1..(Len(words) - 1) :
      /\ words[n + 1].startTime < EndTime(words[n])
      /\ EndTime(words[n]) - words[n + 1].startTime = -gap

(***************************************************************************)
(* C7, amended: for gap < 0 and at least two segments there is an adjacent *)
(* pair whose second segment starts before the first ends, by exactly      *)
(* |gap|.                                                                  *)
(***************************************************************************)
C7_OverlapWhenTwoSegments ==
  (Timed /\ gap < 0 /\ Len(words) >= 2) =>
    \E n \in 1..(Len(words) - 1) :
      /\ words[n + 1].startTime < EndTime(words[n])
      /\ EndTime(words[n]) - words[n + 1].startTime = -gap

\* Two tagged segments of duration 2.4 with gap -1.0: the second starts at 1.4.
C7_Witness ==
  /\ Timed
  /\ gap = -100
  /\ Len(words) = 2
  /\ words[1].motionConfig # NoMotion
  /\ words[2].motionConfig # NoMotion
  /\ words[1].duration = 240
  /\ words[2].duration = 240
  /\ words[2].startTime = 140

(***************************************************************************)
(* C8: totalDuration is the maximum of startTime + duration over the       *)
(* segments, and 0 when there are none, for every gap.                     *)
(***************************************************************************)
C8_TotalIsMaxEnd ==
  pc = "done" =>
    /\ words = <<>> => totalDuration = 0
    /\ words # <<>> =>
         /\ \E n \in 1..Len(words) : totalDuration = EndTime(words[n])
         /\ \A n \in 1..Len(words) : EndTime(words[n]) <= totalDuration
    /\ calculateTotalDuration(words) = totalDuration

\* A negative gap puts the last segment's end before an earlier one's, and a
\* start time below zero.
C8_Witness ==
  /\ pc = "done"
  /\ gap < 0
  /\ Len(words) >= 2
  /\ EndTime(words[Len(words)]) < totalDuration
  /\ \E n \in 1..Len(words) : words[n].startTime < 0

(***************************************************************************)
(* C9, as stated: cleanText contains no '<' and no '>' and is the input's  *)
(* characters outside tags, whitespace collapsed.                          *)
(***************************************************************************)
C9_NoBracketCharacters ==
  pc # "input" =>
    /\ \A p \in 1..Len(cleanText) : cleanText[p] \notin {"<", ">"}
    /\ cleanText = VisibleText(text)

(***************************************************************************)
(* C9, amended: cleanText contains no bracket-delimited substring (no '<'  *)
(* with a '>' after it); it is the input with every bracket-delimited      *)
(* substring removed, every whitespace run collapsed to one space, and     *)
(* trimmed.                                                                *)
(***************************************************************************)
C9_NoBracketedSubstring ==
  pc # "input" =>
    /\ \A p \in 1..Len(cleanText), q \in 1..Len(cleanText) :
         ~(p < q /\ cleanText[p] = "<" /\ cleanText[q] = ">")
    /\ cleanText = VisibleText(text)

\* An input with a tag and a stray bracket: the tag is gone, the bracket stays.
C9_Witness ==
  /\ pc # "input"
  /\ \E k \in 1..Len(tokens) : motionMatch(tokens[k])
  /\ \E p \in 1..Len(cleanText) : cleanText[p] \in {"<", ">"}
  /\ Len(cleanText) < Len(text)

(***************************************************************************)
(* C10: a tag token that does not immediately follow a word token has no   *)
(* effect on the segment list: the list is the one parse gives without     *)
(* that token.  An input of one tag only gives no segment and an empty     *)
(* cleanText; of two tags in succession only the first attaches.           *)
(***************************************************************************)
C10_StrayTagNoEffect ==
  Parsed =>
    /\ \A k \in 1..Len(tokens) :
         (motionMatch(tokens[k]) /\ (k = 1 \/ ~IsWord(tokens[k - 1])))
           => Shape(words) = Shape(ParseLoop(RemoveAt(tokens, k), 1, <<>>))
    /\ (Len(tokens) = 1 /\ motionMatch(tokens[1]))
         => (words = <<>> /\ cleanText = <<>>)
    /\ \A k \in 2..(Len(tokens) - 1) :
         (IsWord(tokens[k - 1]) /\ motionMatch(tokens[k]) /\ motionMatch(tokens[k + 1]))
           => \E n \in 1..Len(words) :
                words[n].motionConfig = MakeMotionConfig(tokens[k])

\* A word followed by two different tags in immediate succession.
C10_Witness ==
  /\ Parsed
  /\ \E k \in 2..(Len(tokens) - 1) :
       /\ IsWord(tokens[k - 1])
       /\ motionMatch(tokens[k])
       /\ motionMatch(tokens[k + 1])
       /\ tokens[k] # tokens[k + 1]
  /\ Len(words) = 1
  /\ words[1].motionConfig # NoMotion

(***************************************************************************)
(* C11: for zero-length or whitespace-only text the pipeline ends with no  *)
(* segments, totalDuration 0 and an empty cleanText.                       *)
(***************************************************************************)
C11_EmptyInput ==
  (\A p \in 1..Len(text) : text[p] \in Whitespace) =>
    /\ pc # "input" => (cleanText = <<>> /\ tokens = <<>>)
    /\ words = <<>>
    /\ totalDuration = 0
    /\ pc = "loop" => ENABLED ParseReturn

\* The pipeline has run to its end on a text of two or more whitespace
\* characters.
C11_Witness ==
  /\ pc = "done"
  /\ Len(text) >= 2
  /\ \A p \in 1..Len(text) : text[p] \in Whitespace
  /\ words = <<>>
  /\ totalDuration = 0
  /\ cleanText = <<>>

(***************************************************************************)
(* C17: every segment parse emits has a non-empty text made of word        *)
(* characters and single spaces only: no '<', no '>', no part of a tag, no *)
(* leading, trailing or doubled space.                                     *)
(***************************************************************************)
C17_SegmentTextClean ==
  \A n \in 1..Len(words) :
    LET t == words[n].text
    IN /\ Len(t) >= 1
       /\ \A p \in 1..Len(t) :
            t[p] \in {"H", "i", "y", "o", "L", "R", "F", "B", "Z",
                      "0", "1", "2", "3", "4", "5", "6", "7", "8", "9",
                      "_", " "}
       /\ t[1] # " "
       /\ t[Len(t)] # " "
       /\ \A p \in 1..(Len(t) - 1) : ~(t[p] = " " /\ t[p + 1] = " ")

\* A segment of two grouped words parsed from a text that also holds a tag,
\* a stray bracket or punctuation.
C17_Witness ==
  /\ Parsed
  /\ \E n \in 1..Len(words) : \E p \in 1..Len(words[n].text) : words[n].text[p] = " "
  /\ \E k \in 1..Len(tokens) : ~IsWord(tokens[k]) /\ ~motionMatch(tokens[k])
  /\ \E k \in 1..Len(tokens) : motionMatch(tokens[k])

(***************************************************************************)
(* C18: parse terminates on every input.  Every iteration of the token     *)
(* loop moves the cursor forward by at least one and never past the end of *)
(* the token list, an iteration that pushes a segment builds it from the   *)
(* word tokens it moved over and from no other, and while the cursor is    *)
(* inside the list the iteration at the cursor moves it, so that the       *)
(* distance Len(tokens) + 1 - i falls with every iteration until the loop  *)
(* returns its result.                                                     *)
(***************************************************************************)
C18_ParseTerminates ==
  /\ [][(pc = "loop" /\ pc' = "loop") =>
          /\ i' >= i + 1
          /\ i' <= Len(tokens) + 1
          /\ \/ words' = words
             \/ /\ Len(words') = Len(words) + 1
                /\ words'[Len(words')].text =
                     Join(SelectSeq(SubSeq(tokens, i, i' - 1), IsWord))
                /\ \A n \in 1..Len(words) : words'[n] = words[n]]_vars
  /\ [](pc = "loop" =>
          /\ i \in 1..(Len(tokens) + 1)
          /\ i <= Len(tokens) =>
               ParseIter(tokens, i, wordIndex).next \in (i + 1)..(Len(tokens) + 1))

\* The loop has returned after iterations that took each of its three
\* branches: a stray bracket or punctuation token, a tag and a word group.
C18_Witness ==
  /\ pc = "parsed"
  /\ i = Len(tokens) + 1
  /\ Len(tokens) >= 4
  /\ Len(words) >= 1
  /\ \E k \in 1..Len(tokens) : ~IsWord(tokens[k]) /\ ~motionMatch(tokens[k])
  /\ \E k \in 1..Len(tokens) : motionMatch(tokens[k])

(***************************************************************************)
(* Validation of one tag                                                   *)
(*                                                                         *)
(* A tag is typed from seven pieces: what stands before the five fields,   *)
(* the five fields, and what stands after them.  Each numeric piece is     *)
(* listed with what it is: whether it is a number at all (digits, digits   *)
(* '.' digits, or '.' digits), whether it is a decimal number with integer *)
(* digits, and its value in hundredths of a second.                        *)
(***************************************************************************)
NumberForms ==
  { [chars |-> <<"0">>,                     numeric |-> TRUE,  decimal |-> TRUE,  hundredths |-> 0],
    [chars |-> <<"0", ".", "0", "5">>,      numeric |-> TRUE,  decimal |-> TRUE,  hundredths |-> 5],
    [chars |-> <<"0", ".", "1">>,           numeric |-> TRUE,  decimal |-> TRUE,  hundredths |-> 10],
    [chars |-> <<"1", ".", "2">>,           numeric |-> TRUE,  decimal |-> TRUE,  hundredths |-> 120],
    [chars |-> <<"1", "0">>,                numeric |-> TRUE,  decimal |-> TRUE,  hundredths |-> 1000],
    [chars |-> <<"1", "0", ".", "0", "1">>, numeric |-> TRUE,  decimal |-> TRUE,  hundredths |-> 1001],
    [chars |-> <<"3", "0">>,                numeric |-> TRUE,  decimal |-> TRUE,  hundredths |-> 3000],
    [chars |-> <<"3", "0", ".", "0", "1">>, numeric |-> TRUE,  decimal |-> TRUE,  hundredths |-> 3001],
    [chars |-> <<".", "5">>,                numeric |-> TRUE,  decimal |-> FALSE, hundredths |-> 50],
    [chars |-> <<"1", ".">>,                numeric |-> FALSE, decimal |-> FALSE, hundredths |-> 100],
    [chars |-> <<"-", "1">>,                numeric |-> FALSE, decimal |-> FALSE, hundredths |-> -100],
    [chars |-> <<"1", "e", "1">>,           numeric |-> FALSE, decimal |-> FALSE, hundredths |-> 1000] }

\* What stands around the five fields: nothing or one enclosing pair of
\* brackets (the two forms validateMotionSyntax is called with), brackets
\* that are doubled or reversed, and other characters.
TagWrappers ==
  { [open |-> <<>>,         close |-> <<>>,         enclosing |-> TRUE,  brackets |-> TRUE],
    [open |-> <<"<">>,      close |-> <<">">>,      enclosing |-> TRUE,  brackets |-> TRUE],
    [open |-> <<"<", "<">>, close |-> <<">">>,      enclosing |-> FALSE, brackets |-> TRUE],
    [open |-> <<"<">>,      close |-> <<">", ">">>, enclosing |-> FALSE, brackets |-> TRUE],
    [open |-> <<">">>,      close |-> <<"<">>,      enclosing |-> FALSE, brackets |-> TRUE],
    [open |-> <<"<", "Z">>, close |-> <<">">>,      enclosing |-> FALSE, brackets |-> FALSE],
    [open |-> <<"<">>,      close |-> <<">", " ">>, enclosing |-> FALSE, brackets |-> FALSE] }

EntryDirections == {"L", "F", "Z"}

ExitDirections == {"R", "B"}

TagInputs ==
  [wrapper : TagWrappers, entrySpeed : NumberForms, entryDir : EntryDirections,
   displayDuration : NumberForms, exitDir : ExitDirections, exitSpeed : NumberForms]

\* The string typed from the pieces.
TagString(parts) ==
  parts.wrapper.open \o parts.entrySpeed.chars \o <<parts.entryDir>>
    \o parts.displayDuration.chars \o <<parts.exitDir>> \o parts.exitSpeed.chars
    \o parts.wrapper.close

ValidatorInit ==
  /\ pc = "validator"
  /\ text = <<>>
  /\ tokens = <<>>
  /\ i = 1
  /\ words = <<>>
  /\ wordIndex = 0
  /\ cleanText = <<>>
  /\ gap = 0
  /\ totalDuration = 0
  /\ ids = <<>>
  /\ call = 1
  /\ prev = NoResult
  /\ now = 0
  /\ tagParts \in TagInputs
  /\ rawTag = TagString(tagParts)
  /\ validation = "none"
  /\ patternMatch = "none"
  /\ NoLayout
  /\ NoRest

\* validateMotionSyntax(motionTag), as the editor's live validation calls it.
ValidateTag ==
  /\ pc = "validator"
  /\ validation = "none"
  /\ validation' = IF validateMotionSyntax(rawTag) THEN "valid" ELSE "invalid"
  /\ UNCHANGED <<pc, pipelineVars, repeatVars, layoutVars, restVars, tagParts, rawTag, patternMatch>>

\* The parser's test of a token against its tag pattern.
MatchTag ==
  /\ pc = "validator"
  /\ patternMatch = "none"
  /\ patternMatch' = IF motionMatch(trim(rawTag)) THEN "match" ELSE "nomatch"
  /\ UNCHANGED <<pc, pipelineVars, repeatVars, layoutVars, restVars, tagParts, rawTag, validation>>

ValidatorNext ==
  \/ ValidateTag
  \/ MatchTag

ValidatorSpec == ValidatorInit /\ [][ValidatorNext]_vars

\* The three numeric pieces of the tag under validation.
NumericParts == {tagParts.entrySpeed, tagParts.displayDuration, tagParts.exitSpeed}

(***************************************************************************)
(* C12: a tag (bare or in one pair of brackets, or with other characters   *)
(* around it) is accepted exactly when its five fields are three numbers   *)
(* and two direction letters, nothing else stands around them, entry and   *)
(* exit speed lie in (0, 10] and the display duration lies in (0, 30].     *)
(***************************************************************************)
C12_AcceptsExactlyInRange ==
  (validation # "none" /\ (tagParts.wrapper.enclosing \/ ~tagParts.wrapper.brackets)) =>
    (validation = "valid" <=>
       /\ tagParts.wrapper.enclosing
       /\ \A f \in NumericParts : f.numeric
       /\ tagParts.entryDir \in {"L", "R", "F", "B"}
       /\ tagParts.exitDir \in {"L", "R", "F", "B"}
       /\ tagParts.entrySpeed.hundredths > 0
       /\ tagParts.entrySpeed.hundredths <= 1000
       /\ tagParts.displayDuration.hundredths > 0
       /\ tagParts.displayDuration.hundredths <= 3000
       /\ tagParts.exitSpeed.hundredths > 0
       /\ tagParts.exitSpeed.hundredths <= 1000)

\* A tag with entry speed 10, display duration 30 and exit speed 10 has
\* been accepted.
C12_Witness ==
  /\ validation = "valid"
  /\ tagParts.entrySpeed.hundredths = 1000
  /\ tagParts.displayDuration.hundredths = 3000
  /\ tagParts.exitSpeed.hundredths = 1000
  /\ tagParts.wrapper.open = <<"<">>

(***************************************************************************)
(* C13: a tag with anything around its five fields other than one          *)
(* enclosing pair of brackets is rejected.                                 *)
(***************************************************************************)
C13_StrictPattern ==
  validation = "valid" => tagParts.wrapper.enclosing

(***************************************************************************)
(* C14: a tag is accepted by the validator, or matched by the parser's tag *)
(* pattern, only if each numeric field is a decimal number with integer    *)
(* digits: digits, optionally followed by '.' and digits.                  *)
(***************************************************************************)
C14_DecimalFields ==
  (validation = "valid" \/ patternMatch = "match") =>
    \A f \in NumericParts : f.decimal

(***************************************************************************)
(* C15: a tag with a numeric field at or below 0.1 is rejected.            *)
(***************************************************************************)
C15_LowerBoundTenth ==
  validation = "valid" => \A f \in NumericParts : f.hundredths > 10

(***************************************************************************)
(* The same call made twice                                                *)
(*                                                                         *)
(* updateText is called with a text and a gap, and it is called again with *)
(* the same text and the same gap, while time passes.                      *)
(***************************************************************************)
RepeatInit ==
  /\ text \in RepeatTexts
  /\ pc = "input"
  /\ tokens = <<>>
  /\ i = 1
  /\ words = <<>>
  /\ wordIndex = 0
  /\ cleanText = <<>>
  /\ gap = 0
  /\ totalDuration = 0
  /\ ids = <<>>
  /\ call = 1
  /\ prev = NoResult
  /\ now \in 0..MaxClock
  /\ NoValidation
  /\ NoLayout
  /\ NoRest

\* The clock moves on: before, between and after the calls, and within a
\* call between two readings of Date.now().
Tick ==
  /\ now < MaxClock
  /\ now' = now + 1
  /\ UNCHANGED <<pc, pipelineVars, call, prev, validatorVars, layoutVars, restVars>>

\* The second call, with the arguments of the first.
CallAgain ==
  /\ pc = "done"
  /\ call = 1
  /\ call' = 2
  /\ prev' = [words |-> words, ids |-> ids, totalDuration |-> totalDuration]
  /\ pc' = "input"
  /\ UNCHANGED <<pipelineVars, now, validatorVars, layoutVars, restVars>>

RepeatNext ==
  \/ Next
  \/ Tick
  \/ CallAgain

RepeatSpec == RepeatInit /\ [][RepeatNext]_vars

\* What the claim compares of a segment list: the texts, the tags with their
\* field values, the start times and the durations.
Segments(ws) ==
  [n \in 1..Len(ws) |->
     [text |-> ws[n].text, motionConfig |-> ws[n].motionConfig,
      startTime |-> ws[n].startTime, duration |-> ws[n].duration]]

(***************************************************************************)
(* C16: a second call with the same text and the same gap, made at any     *)
(* later time, ends with the segment list of the first call: as many       *)
(* segments, with the same texts, tags, start times and durations (and the *)
(* same total duration).                                                   *)
(***************************************************************************)
C16_RepeatedCallAgrees ==
  (call = 2 /\ pc = "done") =>
    /\ Len(words) = Len(prev.words)
    /\ Segments(words) = Segments(prev.words)
    /\ totalDuration = prev.totalDuration

\* A second call has ended later than the first, with a tagged and an
\* untagged segment, under a gap other than 0; the ids of the two calls
\* differ.
C16_Witness ==
  /\ call = 2
  /\ pc = "done"
  /\ gap # 0
  /\ ids # prev.ids
  /\ \E n \in 1..Len(words) : words[n].motionConfig # NoMotion
  /\ \E n \in 1..Len(words) : words[n].motionConfig = NoMotion


(***************************************************************************)
(* The layout as a state machine                                           *)
(***************************************************************************)
\* The texts a layout's words are parsed from: an untagged word, an untagged
\* group of two words, a tagged word, a tagged group of 9 characters and an
\* untagged group of 41 characters, each closed by a tag or by a comma.
LayoutHiYo   == <<"H", "i", " ", "y", "o", " ", ",", " ">>
LayoutTagged == <<"y", "o">> \o PieceTag
LayoutGroup  == <<"H", "i", "y", "o", " ", "H", "i", "y", "o">> \o PieceTag
LayoutLong   ==
  <<"H", "i", " ", "y", "o", " ", "H", "i", " ", "y", "o", " ",
    "H", "i", " ", "y", "o", " ", "H", "i", " ", "y", "o", " ",
    "H", "i", " ", "y", "o", " ", "H", "i", " ", "y", "o", " ",
    "H", "i", " ", "y", "o", " ", ",", " ">>

LayoutPieces == {LayoutHi, LayoutHiYo, LayoutTagged, LayoutGroup, LayoutLong}

LayoutTexts ==
  { Flatten(ps) : ps \in UNION { [1..n -> LayoutPieces] : n \in 0..MaxLayoutWords } }

\* The canvas of calculateMotionTiming and a small one.
Canvases == { createLayoutConfig(80000, 60000), createLayoutConfig(20000, 16000) }

LayoutInit ==
  /\ pc = "layout"
  /\ text \in LayoutTexts
  /\ tokens = <<>>
  /\ i = 1
  /\ words = <<>>
  /\ wordIndex = 0
  /\ cleanText = <<>>
  /\ gap = 0
  /\ totalDuration = 0
  /\ ids = <<>>
  /\ call = 1
  /\ prev = NoResult
  /\ now = 0
  /\ NoValidation
  /\ NoRest
  /\ layoutInput = calculatedWords(parseMotionLanguage(text).words, 0)
  /\ config \in Canvases
  /\ positioned = <<>>
  /\ occupiedAreas = <<>>
  /\ layoutResult = <<>>

\* The position layoutWords gives a word: constrained, with its bounds.
Placed(word, dimensions, position) ==
  LET constrained == constrainToCanvas(position, dimensions, config)
  IN /\ occupiedAreas' =
          Append(occupiedAreas,
                 createCollisionBounds(constrained, dimensions, config.minWordSpacing))
     /\ positioned' = Append(positioned, [word |-> word, position |-> constrained])

\* An iteration of layoutWords on a motion language word.
PlaceMotionWord ==
  /\ pc = "layout"
  /\ Len(positioned) < Len(layoutInput)
  /\ LET word == layoutInput[Len(positioned) + 1]
         dimensions == estimateWordDimensions(word.text, config)
     IN /\ word.animation = "motionLanguage"
        /\ word.motionConfig # NoMotion
        /\ \E random1 \in Randoms, random2 \in Randoms :
             Placed(word, dimensions,
                    calculateMotionLanguagePosition(word, dimensions, config,
                                                    random1, random2))
  /\ UNCHANGED <<pc, pipelineVars, repeatVars, validatorVars, restVars,
                 layoutInput, config, layoutResult>>

\* An iteration of layoutWords on any other word.
PlaceFlowWord ==
  /\ pc = "layout"
  /\ Len(positioned) < Len(layoutInput)
  /\ LET word == layoutInput[Len(positioned) + 1]
         dimensions == estimateWordDimensions(word.text, config)
     IN /\ ~(word.animation = "motionLanguage" /\ word.motionConfig # NoMotion)
        /\ Placed(word, dimensions,
                  calculateFlowPosition(word, dimensions, config, occupiedAreas))
  /\ UNCHANGED <<pc, pipelineVars, repeatVars, validatorVars, restVars,
                 layoutInput, config, layoutResult>>

\* layoutWords returns and calculateWordPositions maps its result (or
\* returns [] for no words).
LayoutReturn ==
  /\ pc = "layout"
  /\ Len(positioned) = Len(layoutInput)
  /\ layoutResult' =
       [n \in 1..Len(positioned) |->
          WithPosition(positioned[n].word, positioned[n].position)]
  /\ pc' = "positioned"
  /\ UNCHANGED <<pipelineVars, repeatVars, validatorVars, restVars,
                 layoutInput, config, positioned, occupiedAreas>>

LayoutNext ==
  \/ PlaceMotionWord
  \/ PlaceFlowWord
  \/ LayoutReturn

LayoutSpec == LayoutInit /\ [][LayoutNext]_vars

(***************************************************************************)
(* Properties of the layout                                                *)
(***************************************************************************)
\* The n-th placed segment is untagged.
Untagged(n) == positioned[n].word.motionConfig = NoMotion

\* The estimated size of the n-th placed segment.
SizeOf(n) == estimateWordDimensions(positioned[n].word.text, config)

\* The box of a segment of size d at position p: the position, the size and
\* the minimum spacing on every side.
BoxAt(p, d) ==
  [left   |-> p.x - config.minWordSpacing,
   right  |-> p.x + d.width + config.minWordSpacing,
   top    |-> p.y - config.minWordSpacing,
   bottom |-> p.y + d.height + config.minWordSpacing]

\* Two boxes have a point in common.
Intersect(a, b) ==
  /\ a.left <= b.right
  /\ b.left <= a.right
  /\ a.top <= b.bottom
  /\ b.top <= a.bottom

\* The number of radii the spiral search tries: 0, 20, 40, ... below half
\* the smaller canvas side.
NumRadii == (MathMin(config.canvasWidth, config.canvasHeight) \div 2 + 1999) \div 2000

\* The j-th candidate position (j = 0, 1, ...) of the n-th segment in spiral
\* order: radius by radius, 8 angles per radius.
Candidate(n, j) ==
  LET pos == generateSpiralPositions(config.canvasWidth \div 2, config.canvasHeight \div 2,
                                     2000 * (j \div 8), 8)[(j % 8) + 1]
  IN [x |-> pos.x - SizeOf(n).width \div 2, y |-> pos.y - SizeOf(n).height \div 2]

\* Position p lies within the canvas margins for the n-th segment and its
\* box meets the box of no segment placed before it.
Free(n, p) ==
  /\ config.margin <= p.x
  /\ p.x + SizeOf(n).width <= config.canvasWidth - config.margin
  /\ config.margin <= p.y
  /\ p.y + SizeOf(n).height <= config.canvasHeight - config.margin
  /\ \A a \in 1..(n - 1) :
       ~Intersect(BoxAt(p, SizeOf(n)), BoxAt(positioned[a].position, SizeOf(a)))

\* The indices of the free candidates of the n-th segment.
FreeCandidates(n) == { j \in 0..(8 * NumRadii - 1) : Free(n, Candidate(n, j)) }

\* The canvas centre as a position of the n-th segment.
CentrePosition(n) ==
  [x |-> config.canvasWidth \div 2 - SizeOf(n).width \div 2,
   y |-> config.canvasHeight \div 2 - SizeOf(n).height \div 2]

(***************************************************************************)
(* C19: an untagged segment for which a free candidate exists is placed at *)
(* the first free candidate in spiral order, and its box meets the box of  *)
(* no segment placed before it, tagged or untagged.                        *)
(***************************************************************************)
C19_NoOverlapFirstFree ==
  \A n \in 1..Len(positioned) :
    (Untagged(n) /\ FreeCandidates(n) # {}) =>
      /\ \E j \in FreeCandidates(n) :
           /\ \A h \in FreeCandidates(n) : j <= h
           /\ positioned[n].position = Candidate(n, j)
      /\ \A a \in 1..(n - 1) :
           ~Intersect(BoxAt(positioned[n].position, SizeOf(n)),
                      BoxAt(positioned[a].position, SizeOf(a)))

\* A layout has returned three or more segments of which two untagged ones
\* were placed at free candidates away from the centre.
C19_Witness ==
  /\ pc = "positioned"
  /\ Len(positioned) >= 3
  /\ \E a, b \in 1..Len(positioned) :
       /\ a < b
       /\ Untagged(a) /\ FreeCandidates(a) # {}
       /\ Untagged(b) /\ FreeCandidates(b) # {}
       /\ positioned[a].position # CentrePosition(a)
       /\ positioned[b].position # CentrePosition(b)

(***************************************************************************)
(* C20 as stated: an untagged segment for which the spiral search finds no *)
(* free candidate is placed at the canvas centre, and the layout returns   *)
(* every input segment, in order, with a position.                         *)
(***************************************************************************)
C20_FallbackAtCentre ==
  /\ \A n \in 1..Len(positioned) :
       (Untagged(n) /\ FreeCandidates(n) = {}) =>
         positioned[n].position = CentrePosition(n)
  /\ pc = "positioned" =>
       /\ Len(layoutResult) = Len(layoutInput)
       /\ \A n \in 1..Len(layoutInput) :
            layoutResult[n] = WithPosition(layoutInput[n], positioned[n].position)

(***************************************************************************)
(* C20 amended: an untagged segment for which the spiral search finds no   *)
(* free candidate is placed at the canvas centre on each axis on which it  *)
(* fits between the margins, and at the left or top margin on an axis on   *)
(* which it does not; the layout returns every input segment, in order,    *)
(* with a position.                                                        *)
(***************************************************************************)
C20_FallbackCentreOrMargin ==
  /\ \A n \in 1..Len(positioned) :
       (Untagged(n) /\ FreeCandidates(n) = {}) =>
         /\ positioned[n].position.x =
              IF SizeOf(n).width <= config.canvasWidth - 2 * config.margin
              THEN CentrePosition(n).x ELSE config.margin
         /\ positioned[n].position.y =
              IF SizeOf(n).height <= config.canvasHeight - 2 * config.margin
              THEN CentrePosition(n).y ELSE config.margin
  /\ pc = "positioned" =>
       /\ Len(layoutResult) = Len(layoutInput)
       /\ \A n \in 1..Len(layoutInput) :
            layoutResult[n] = WithPosition(layoutInput[n], positioned[n].position)

\* A layout has returned with two untagged segments that found no free
\* candidate: one that fits the canvas and lies at the centre over an
\* earlier segment, and one too wide for the canvas.
C20_Witness ==
  /\ pc = "positioned"
  /\ \E a, b \in 1..Len(positioned) :
       /\ Untagged(a) /\ FreeCandidates(a) = {}
       /\ SizeOf(a).width <= config.canvasWidth - 2 * config.margin
       /\ positioned[a].position = CentrePosition(a)
       /\ a > 1
       /\ Untagged(b) /\ FreeCandidates(b) = {}
       /\ SizeOf(b).width > config.canvasWidth - 2 * config.margin
       /\ positioned[b].position # CentrePosition(b)

(***************************************************************************)
(* C29: the segment texts, joined in order by single spaces, are the       *)
(* cleanText of the input: no text outside a tag is lost by the grouping.  *)
(***************************************************************************)
C29_NoTextLost ==
  Parsed => Join([n \in 1..Len(words) |-> words[n].text]) = cleanText

\* The n-th placed segment fits between the margins on both axes.
Fits(n) ==
  /\ SizeOf(n).width <= config.canvasWidth - 2 * config.margin
  /\ SizeOf(n).height <= config.canvasHeight - 2 * config.margin

(***************************************************************************)
(* C30: every placed segment that fits between the margins lies within     *)
(* them, and an untagged segment for which the search accepted a candidate *)
(* lies at one of its free candidates: clamping has not moved it.          *)
(***************************************************************************)
C30_WithinMargins ==
  \A n \in 1..Len(positioned) :
    /\ Fits(n) =>
         /\ config.margin <= positioned[n].position.x
         /\ positioned[n].position.x + SizeOf(n).width
              <= config.canvasWidth - config.margin
         /\ config.margin <= positioned[n].position.y
         /\ positioned[n].position.y + SizeOf(n).height
              <= config.canvasHeight - config.margin
    /\ (Untagged(n) /\ FreeCandidates(n) # {}) =>
         \E j \in FreeCandidates(n) : positioned[n].position = Candidate(n, j)

\* A layout has returned with a tagged segment that fits and was clamped to
\* the right margin, an untagged segment at a free candidate, and an
\* untagged segment that fits and fell back to the centre.
C30_Witness ==
  /\ pc = "positioned"
  /\ \E a, b, c \in 1..Len(positioned) :
       /\ ~Untagged(a) /\ Fits(a)
       /\ positioned[a].position.x + SizeOf(a).width = config.canvasWidth - config.margin
       /\ Untagged(b) /\ FreeCandidates(b) # {}
       /\ Untagged(c) /\ FreeCandidates(c) = {} /\ Fits(c)

(***************************************************************************)
(* The collision test on its own: two rectangles built by                  *)
(* createCollisionBounds are handed to boundsOverlap.                      *)
(***************************************************************************)
\* Positions lie on a grid of GridStep, from 0 to MaxCoord steps.
MaxCoord == 3

\* The grid is as wide as the spacing around a word.
GridStep == createLayoutConfig(80000, 60000).minWordSpacing

GridPositions == {[x |-> cx * GridStep, y |-> cy * GridStep] : cx, cy \in 0..MaxCoord}

GridDimensions == {[width |-> w, height |-> h, fontSize |-> 3200] : w, h \in {0, GridStep}}

CollisionBoxes ==
  {createCollisionBounds(p, d, GridStep) : p \in GridPositions, d \in GridDimensions}

CollisionInit ==
  /\ pc = "collision"
  /\ boundsA \in CollisionBoxes
  /\ boundsB \in CollisionBoxes
  /\ overlap = NoResult
  /\ newConfig = NoResult
  /\ resized = <<>>
  /\ NoStore
  /\ text = <<>>
  /\ tokens = <<>>
  /\ i = 1
  /\ words = <<>>
  /\ wordIndex = 0
  /\ cleanText = <<>>
  /\ gap = 0
  /\ totalDuration = 0
  /\ ids = <<>>
  /\ call = 1
  /\ prev = NoResult
  /\ now = 0
  /\ NoValidation
  /\ NoLayout

\* The calls boundsOverlap(a, b), boundsOverlap(b, a), boundsOverlap(a, a)
\* and boundsOverlap(b, b).
TestOverlap ==
  /\ pc = "collision"
  /\ overlap' = [ab |-> boundsOverlap(boundsA, boundsB),
                 ba |-> boundsOverlap(boundsB, boundsA),
                 aa |-> boundsOverlap(boundsA, boundsA),
                 bb |-> boundsOverlap(boundsB, boundsB)]
  /\ pc' = "collided"
  /\ UNCHANGED <<pipelineVars, repeatVars, validatorVars, layoutVars,
                 boundsA, boundsB, resizeVars, storeVars, motionVars>>

CollisionNext == TestOverlap

CollisionSpec == CollisionInit /\ [][CollisionNext]_vars

\* Rectangle a lies entirely to one side of rectangle b on the x axis or on
\* the y axis.
Separated(a, b) ==
  \/ a.right < b.left
  \/ b.right < a.left
  \/ a.bottom < b.top
  \/ b.bottom < a.top

\* Some point lies in both closed rectangles.
CommonPoint(a, b) ==
  \E px \in {a.left, b.left}, py \in {a.top, b.top} :
    /\ a.left <= px /\ px <= a.right /\ a.top <= py /\ py <= a.bottom
    /\ b.left <= px /\ px <= b.right /\ b.top <= py /\ py <= b.bottom

\* C21: boundsOverlap reports an overlap unless one rectangle lies entirely
\* to one side of the other on some axis, which is to say exactly when the
\* closed rectangles share a point (touching counts); the answer does not
\* depend on the order of the arguments, and every rectangle overlaps itself.
C21_CollisionTest ==
  pc = "collided" =>
    /\ overlap.ab = ~Separated(boundsA, boundsB)
    /\ overlap.ab = CommonPoint(boundsA, boundsB)
    /\ overlap.ab = overlap.ba
    /\ overlap.aa
    /\ overlap.bb

\* Two different rectangles that touch along an edge, reported as
\* overlapping.
C21_Witness ==
  /\ pc = "collided"
  /\ boundsA.right = boundsB.left
  /\ boundsA.top = boundsB.top
  /\ overlap.ab
  /\ overlap.ba

(***************************************************************************)
(* Resizing the canvas of a finished layout                                *)
(***************************************************************************)
\* updatePositionsForResize(words, oldConfig, newConfig) on the words a
\* layout returned, for a new canvas of any of the sizes.
Resize ==
  /\ pc = "positioned"
  /\ \E cfg \in Canvases :
       /\ newConfig' = cfg
       /\ resized' = updatePositionsForResize(layoutResult, config, cfg)
  /\ pc' = "resized"
  /\ UNCHANGED <<pipelineVars, repeatVars, validatorVars, layoutVars, collisionVars,
                 storeVars, motionVars>>

ResizeNext ==
  \/ LayoutNext
  \/ Resize

ResizeSpec == LayoutInit /\ [][ResizeNext]_vars

\* q is p scaled by new/old, to the nearest hundredth of a pixel.
ScaledBy(q, p, newLength, oldLength) ==
  LET pixel == 100
      d == 2 * (q * (oldLength \div pixel) - p * (newLength \div pixel))
  IN -(oldLength \div pixel) <= d /\ d <= oldLength \div pixel

\* The fields of a word other than its position.
Fixed(w) == [f \in DOMAIN w \ {"position"} |-> w[f]]

\* C22: updatePositionsForResize returns as many words, in the same order;
\* every position is (x * newWidth / oldWidth, y * newHeight / oldHeight),
\* every other field is the one the layout was given, and with identical
\* dimensions the positions are unchanged.
C22_ResizeScales ==
  pc = "resized" =>
    /\ Len(resized) = Len(layoutResult)
    /\ \A n \in 1..Len(resized) :
         /\ ScaledBy(resized[n].position.x, layoutResult[n].position.x,
                     newConfig.canvasWidth, config.canvasWidth)
         /\ ScaledBy(resized[n].position.y, layoutResult[n].position.y,
                     newConfig.canvasHeight, config.canvasHeight)
         /\ Fixed(resized[n]) = Fixed(layoutResult[n])
         /\ Fixed(resized[n]) = Fixed(layoutInput[n])
    /\ (/\ newConfig.canvasWidth = config.canvasWidth
        /\ newConfig.canvasHeight = config.canvasHeight) => resized = layoutResult

\* A layout of a tagged and an untagged segment, with start times and
\* durations that differ, resized to a canvas of another aspect ratio: the
\* positions moved.
C22_Witness ==
  /\ pc = "resized"
  /\ newConfig # config
  /\ \E a, b \in 1..Len(resized) :
       /\ resized[a].motionConfig # NoMotion
       /\ resized[b].motionConfig = NoMotion
       /\ resized[a].startTime # resized[b].startTime
       /\ resized[a].duration # resized[b].duration
       /\ resized[a].position # layoutResult[a].position
       /\ resized[b].position.x = 4 * layoutResult[b].position.x
       /\ resized[b].position.y # 4 * layoutResult[b].position.y

(***************************************************************************)
(* The typographer store (typographer-store.ts)                            *)
(*                                                                         *)
(* words and totalDuration are the store's fields of these names; the      *)
(* words carry the positions of calculateMotionTiming's second pass.       *)
(***************************************************************************)

\* events.sort((a, b) => a.time - b.time): a stable sort, by insertion.
RECURSIVE SortByTime(_)
SortByTime(events) ==
  IF events = <<>> THEN <<>>
  ELSE LET e == events[Len(events)]
           sorted == SortByTime(SubSeq(events, 1, Len(events) - 1))
           before == SelectSeq(sorted, LAMBDA f : f.time <= e.time)
           after  == SelectSeq(sorted, LAMBDA f : f.time > e.time)
       IN before \o <<e>> \o after

RECURSIVE TimelineEvents(_)
TimelineEvents(ws) ==
  IF ws = <<>> THEN <<>>
  ELSE << [wordIndex |-> ws[1].index, type |-> "start", time |-> ws[1].startTime,
           animation |-> ws[1].animation],
          [wordIndex |-> ws[1].index, type |-> "end",
           time |-> ws[1].startTime + ws[1].duration,
           animation |-> ws[1].animation] >>
         \o TimelineEvents(Tail(ws))

generateTimeline(ws) == SortByTime(TimelineEvents(ws))

\* What set() stores for a new list of words.
StoreWords(wordsWithTiming) ==
  /\ words' = wordsWithTiming
  /\ timeline' = generateTimeline(wordsWithTiming)
  /\ totalDuration' = TotalDuration(wordsWithTiming)

\* What no handler of the store touches.
outsideStore ==
  <<pc, text, tokens, i, wordIndex, cleanText, gap, ids, repeatVars, validatorVars,
    layoutVars, collisionVars, resizeVars>>

\* create() of the typographer store: initialised with the default text.
useTypographerStore ==
  /\ pc = "store"
  /\ text = <<>>
  /\ tokens = <<>>
  /\ i = 1
  /\ wordIndex = 0
  /\ cleanText = <<>>
  /\ gap = 0
  /\ ids = <<>>
  /\ call = 1
  /\ prev = NoResult
  /\ now = 0
  /\ NoValidation
  /\ NoLayout
  /\ boundsA = NoResult
  /\ boundsB = NoResult
  /\ overlap = NoResult
  /\ newConfig = NoResult
  /\ resized = <<>>
  /\ textContent = defaultText
  /\ \E randoms \in RandomChoices(ParsedWords[defaultText]) :
       LET wordsWithTiming ==
             calculateMotionTiming(ParsedWords[defaultText], 0, randoms)
       IN /\ words = wordsWithTiming
          /\ timeline = generateTimeline(wordsWithTiming)
          /\ totalDuration = TotalDuration(wordsWithTiming)
          /\ currentWordIndex = IF Len(wordsWithTiming) > 0 THEN 0 ELSE -1
  /\ isPlaying = TRUE
  /\ currentTime = 0
  /\ playbackSpeed = 100
  /\ wordGap = 0
  /\ isLooping = TRUE
  /\ shortOfEnd = FALSE

\* The typographer store as created. The motion store is no part of
\* StoreSpec: no operation of the typographer store reads it.
StoreInit ==
  /\ useTypographerStore
  /\ settings = NoResult
  /\ syncGapWithTypographer = "null"

updateText ==
  /\ pc = "store"
  /\ \E t \in StoreTexts :
       LET parsed == ParsedWords[t]
       IN \E randoms \in RandomChoices(parsed) :
            LET wordsWithTiming ==
                  calculateMotionTiming(parsed, wordGap, randoms)
            IN /\ textContent' = t
               /\ StoreWords(wordsWithTiming)
               /\ currentWordIndex' = IF Len(wordsWithTiming) > 0 THEN 0 ELSE -1
               /\ isPlaying' = (Len(wordsWithTiming) > 0)
               /\ currentTime' = 0
               /\ shortOfEnd' = FALSE
  /\ UNCHANGED <<playbackSpeed, wordGap, isLooping, motionVars, outsideStore>>

assignAnimation ==
  /\ pc = "store"
  /\ \E index \in 0..MaxStoreWords, animation \in AnimationChoices :
       IF index + 1 \in 1..Len(words)
       THEN LET updatedWords == [words EXCEPT ![index + 1].animation = animation]
            IN \E randoms \in RandomChoices(updatedWords) :
                 StoreWords(calculateMotionTiming(updatedWords, wordGap,
                                                            randoms))
       ELSE UNCHANGED <<words, timeline, totalDuration>>
  /\ UNCHANGED <<textContent, currentWordIndex, isPlaying, currentTime, playbackSpeed,
                 wordGap, isLooping, shortOfEnd, motionVars, outsideStore>>

playAnimation ==
  /\ pc = "store"
  /\ isPlaying' = TRUE
  /\ UNCHANGED <<words, totalDuration, textContent, timeline, currentWordIndex,
                 currentTime, playbackSpeed, wordGap, isLooping, shortOfEnd,
                 motionVars, outsideStore>>

pauseAnimation ==
  /\ pc = "store"
  /\ isPlaying' = FALSE
  /\ UNCHANGED <<words, totalDuration, textContent, timeline, currentWordIndex,
                 currentTime, playbackSpeed, wordGap, isLooping, shortOfEnd,
                 motionVars, outsideStore>>

\* seekTo without the clamp.
SeekTimeUnclamped(time) == time

\* The time seekTo(time) stores.
SeekTime(time) == MathMax(0, MathMin(time, totalDuration))

\* The speed setPlaybackSpeed(speed) stores, in hundredths.
ClampSpeed(speed) == MathMax(10, MathMin(speed, 300))

setPlaybackSpeed ==
  /\ pc = "store"
  /\ \E speed \in SpeedArguments : playbackSpeed' = ClampSpeed(speed)
  /\ UNCHANGED <<words, totalDuration, textContent, timeline, currentWordIndex,
                 isPlaying, currentTime, wordGap, isLooping, shortOfEnd, motionVars,
                 outsideStore>>

seekTo ==
  /\ pc = "store"
  /\ \E time \in SeekTimes : currentTime' = SeekTime(time)
  /\ shortOfEnd' = FALSE
  /\ UNCHANGED <<words, totalDuration, textContent, timeline, currentWordIndex,
                 isPlaying, playbackSpeed, wordGap, isLooping, motionVars,
                 outsideStore>>


\* setWordGap(g) that stores the gap and leaves the words as they are.
SetWordGapStale(g) ==
  /\ wordGap' = ClampGap(g)
  /\ UNCHANGED <<words, timeline, totalDuration>>
  /\ currentTime' = 0
  /\ shortOfEnd' = FALSE

\* The body of setWordGap(g).
SetWordGap(g) ==
  \E randoms \in RandomChoices(words) :
    /\ wordGap' = ClampGap(g)
    /\ StoreWords(calculateMotionTiming(words, ClampGap(g), randoms))
    /\ currentTime' = 0
    /\ shortOfEnd' = FALSE

setWordGap ==
  /\ pc = "store"
  /\ \E g \in GapArguments : SetWordGap(g)
  /\ UNCHANGED <<textContent, currentWordIndex, isPlaying, playbackSpeed, isLooping,
                 motionVars, outsideStore>>

StoreNext ==
  \/ updateText
  \/ assignAnimation
  \/ playAnimation
  \/ pauseAnimation
  \/ seekTo
  \/ setPlaybackSpeed
  \/ setWordGap

StoreSpec == StoreInit /\ [][StoreNext]_vars

(***************************************************************************)
(* Properties of the typographer store                                     *)
(***************************************************************************)
\* C23: in every state of the store, after any sequence of updateText,
\* setWordGap, assignAnimation, seekTo, playAnimation and pauseAnimation,
\* the stored segments have the text, tag, start time and duration that
\* parsing the current textContent and scheduling with the current wordGap
\* give, and totalDuration is the greatest end time of the stored segments,
\* 0 if there is none.
C23_StoreIsCompiled ==
  pc = "store" =>
    /\ Segments(words)
         = Segments(calculatedWords(parseMotionLanguage(textContent).words,
                                          wordGap))
    /\ \A n \in 1..Len(words) : EndTime(words[n]) <= totalDuration
    /\ IF words = <<>>
       THEN totalDuration = 0
       ELSE \E n \in 1..Len(words) : EndTime(words[n]) = totalDuration

\* A store of a tagged and an untagged segment whose gap was changed, whose
\* tagged segment was given another animation, and whose playback was
\* moved and paused.
C23_Witness ==
  /\ pc = "store"
  /\ wordGap = -200
  /\ currentTime > 0
  /\ ~isPlaying
  /\ \E a, b \in 1..Len(words) :
       /\ a < b
       /\ words[a].motionConfig # NoMotion
       /\ words[a].animation = "fadeIn"
       /\ words[b].motionConfig = NoMotion
       /\ words[b].startTime = EndTime(words[a]) - 200

\* C27: in every state of the store 0 <= currentTime <= totalDuration;
\* a step that changes totalDuration leaves currentTime at 0, and a step
\* that moves currentTime anywhere else is a seekTo, which stores its
\* argument clamped into [0, totalDuration].
C27_TimeInRange ==
  /\ [](pc = "store" => (0 <= currentTime /\ currentTime <= totalDuration))
  /\ [][pc = "store" =>
          /\ totalDuration' # totalDuration => currentTime' = 0
          /\ currentTime' # currentTime =>
               \/ currentTime' = 0
               \/ /\ totalDuration' = totalDuration
                  /\ \E time \in SeekTimes :
                       currentTime' = IF time < 0 THEN 0
                                      ELSE IF time > totalDuration THEN totalDuration
                                      ELSE time]_vars

\* seekTo past the end has left currentTime at the end, and a seekTo inside
\* has left it where it was asked to.
C27_Witness ==
  /\ pc = "store"
  /\ totalDuration > 130
  /\ currentTime = totalDuration
  /\ Len(words) = 2

\* The gap g clamped to [-2, 5], in hundredths.
Clamped(g) == IF g < -200 THEN -200 ELSE IF g > 500 THEN 500 ELSE g

\* A step of setWordGap(g) from a state setWordGap(g) has produced: it
\* stores the clamped gap and one of the arrays calculateMotionTiming can
\* return on the stored words.
SetWordGapAgain(g) ==
  /\ pc = "store"
  /\ wordGap = Clamped(g)
  /\ currentTime = 0
  /\ UNCHANGED <<textContent, currentWordIndex, isPlaying, playbackSpeed, isLooping>>
  /\ wordGap' = Clamped(g)
  /\ currentTime' = 0
  /\ words' \in MotionTimings(words, Clamped(g))

\* The gap is within [-2, 5] and adjacent segments are a duration and a gap
\* apart; a step that changes the gap stores the clamped argument of a
\* setWordGap.
GapScheduled ==
  /\ [](pc = "store" =>
          /\ -200 <= wordGap /\ wordGap <= 500
          /\ \A n \in 1..(Len(words) - 1) :
               words[n + 1].startTime
                 = words[n].startTime + words[n].duration + wordGap)
  /\ [][(pc = "store" /\ wordGap' # wordGap) =>
          \E g \in GapArguments :
            /\ wordGap' = Clamped(g)
            /\ Segments(words') = Segments(calculatedWords(words, Clamped(g)))]_vars

\* The words without their positions.
Unpositioned(ws) == [n \in 1..Len(ws) |-> Fixed(ws[n])]

\* Math.random() is called in a layout of ws.
Jittered(ws) ==
  \E n \in 1..Len(ws) : ws[n].animation = "motionLanguage" /\ ws[n].motionConfig # NoMotion

\* C28 as stated: setWordGap(g) stores the gap clamped to [-2, 5] and
\* schedules with it, and a second setWordGap(g) leaves the state of the
\* store as the first left it.
C28_SecondCallSameState ==
  /\ GapScheduled
  /\ [][\A g \in GapArguments :
          SetWordGapAgain(g) => UNCHANGED <<words, totalDuration, storeVars>>]_vars

\* C28: setWordGap(g) stores the gap clamped to [-2, 5] and schedules with
\* it, and a second setWordGap(g) leaves the state of the store as the first
\* left it but for the positions of the segments, which are laid out anew
\* and are the same where no segment's position is drawn at random.
C28_SecondCallSameButPositions ==
  /\ GapScheduled
  /\ [][\A g \in GapArguments :
          SetWordGapAgain(g) =>
            /\ Unpositioned(words') = Unpositioned(words)
            /\ ~Jittered(words) => words' = words
            /\ UNCHANGED <<totalDuration, storeVars>>]_vars

\* A gap below -2 was clamped: the second of two segments, the first of
\* them tagged, starts 2 s before the first ends.
C28_Witness ==
  /\ pc = "store"
  /\ wordGap = -200
  /\ currentTime = 0
  /\ Len(words) = 2
  /\ Jittered(words)
  /\ words[2].startTime = EndTime(words[1]) - 200

(***************************************************************************)
(* The motion store (motion-store.ts) next to the typographer store        *)
(*                                                                         *)
(* Of the motion settings the model keeps gapBetweenWords, in hundredths   *)
(* of a second.                                                            *)
(***************************************************************************)
DEFAULT_MOTION_SETTINGS == [gapBetweenWords |-> 0]

MOTION_PRESETS ==
  { [id |-> "subtle",   settings |-> [gapBetweenWords |-> 20]],
    [id |-> "dynamic",  settings |-> [gapBetweenWords |-> 10]],
    [id |-> "dramatic", settings |-> [gapBetweenWords |-> -10]] }

\* The ids applyMotionPreset is called with.
PresetIds == {"subtle", "dynamic", "dramatic", "missing"}

\* The effect of MotionPreview: setSyncGapCallback(setWordGap).
setSyncGapCallback ==
  /\ pc = "store"
  /\ syncGapWithTypographer' = "setWordGap"
  /\ UNCHANGED <<words, totalDuration, storeVars, settings, outsideStore>>

\* updateMotion({ gapBetweenWords: value }).
updateMotion ==
  /\ pc = "store"
  /\ \E value \in GapArguments :
       LET newSettings == [settings EXCEPT !.gapBetweenWords = value]
       IN /\ IF syncGapWithTypographer # "null"
             THEN SetWordGap(newSettings.gapBetweenWords)
             ELSE UNCHANGED <<wordGap, words, timeline, totalDuration, currentTime,
                              shortOfEnd>>
          /\ settings' = newSettings
  /\ UNCHANGED <<textContent, currentWordIndex, isPlaying, playbackSpeed, isLooping,
                 syncGapWithTypographer, outsideStore>>

resetMotion ==
  /\ pc = "store"
  /\ settings' = DEFAULT_MOTION_SETTINGS
  /\ UNCHANGED <<words, totalDuration, storeVars, syncGapWithTypographer, outsideStore>>

applyMotionPreset ==
  /\ pc = "store"
  /\ \E presetId \in PresetIds :
       IF \E preset \in MOTION_PRESETS : preset.id = presetId
       THEN settings' = (CHOOSE preset \in MOTION_PRESETS : preset.id = presetId).settings
       ELSE UNCHANGED settings
  /\ UNCHANGED <<words, totalDuration, storeVars, syncGapWithTypographer, outsideStore>>

\* The operations on the gap: those of the motion store, the registration
\* of the callback, and setWordGap called by the slider of the preview.
SyncNext ==
  \/ setSyncGapCallback
  \/ updateMotion
  \/ resetMotion
  \/ applyMotionPreset
  \/ setWordGap
  \/ playAnimation
  \/ pauseAnimation

\* The settings the persist middleware restores from the motion-store
\* entry of localStorage: none stored, or those an earlier session left.
PersistedSettings ==
  {DEFAULT_MOTION_SETTINGS}
    \cup {[gapBetweenWords |-> value] : value \in GapArguments}
    \cup {preset.settings : preset \in MOTION_PRESETS}

\* Both stores as created, with no callback registered yet.
SyncInit ==
  /\ useTypographerStore
  /\ settings \in PersistedSettings
  /\ syncGapWithTypographer = "null"

SyncSpec == SyncInit /\ [][SyncNext]_vars

\* C24: with the sync callback registered, after any sequence of
\* updateMotion (with a gap), applyMotionPreset, resetMotion and setWordGap
\* the gap of the motion settings equals the wordGap of the typographer
\* store.
C24_GapsInSync ==
  (pc = "store" /\ syncGapWithTypographer # "null") =>
    settings.gapBetweenWords = wordGap

(***************************************************************************)
(* Playback: the auto-advance effect of Controls.tsx on the store          *)
(***************************************************************************)
\* The speeds of a playback: the one the store is created with and the
\* highest setPlaybackSpeed stores.
PlaybackSpeeds == {100, ClampSpeed(500)}

\* The store when Controls is mounted or the user has set it up: the text
\* it was created with or one typed since, some gap and speed, looping on
\* (as Controls starts) or off, playing from the start or from where a
\* seekTo has put it.
PlaybackInit ==
  /\ pc = "store"
  /\ text = <<>>
  /\ tokens = <<>>
  /\ i = 1
  /\ wordIndex = 0
  /\ cleanText = <<>>
  /\ gap = 0
  /\ ids = <<>>
  /\ call = 1
  /\ prev = NoResult
  /\ now = 0
  /\ NoValidation
  /\ NoLayout
  /\ boundsA = NoResult
  /\ boundsB = NoResult
  /\ overlap = NoResult
  /\ newConfig = NoResult
  /\ resized = <<>>
  /\ textContent \in StoreTexts \cup {defaultText}
  /\ wordGap \in StoredGaps
  /\ \E randoms \in RandomChoices(ParsedWords[textContent]) :
       LET wordsWithTiming ==
             calculateMotionTiming(ParsedWords[textContent], wordGap, randoms)
       IN /\ words = wordsWithTiming
          /\ timeline = generateTimeline(wordsWithTiming)
          /\ totalDuration = TotalDuration(wordsWithTiming)
          /\ currentWordIndex = IF Len(wordsWithTiming) > 0 THEN 0 ELSE -1
  /\ isPlaying = TRUE
  /\ currentTime \in {SeekTime(time) : time \in SeekTimes}
  /\ playbackSpeed \in PlaybackSpeeds
  /\ isLooping \in BOOLEAN
  /\ shortOfEnd = FALSE
  /\ settings = NoResult
  /\ syncGapWithTypographer = "null"

\* Where the interval callback has last returned: not yet run ("store"),
\* after seekTo(newTime) alone, after seekTo(0), after pauseAnimation().
CallbackPositions == {"store", "advanced", "restarted", "paused"}

\* Math.min(currentTime + 0.1 * playbackSpeed, totalDuration), to the
\* hundredth of a second.
NewTime == MathMin(currentTime + playbackSpeed \div 10, totalDuration)

\* newTime >= totalDuration, the sum currentTime + 0.1 * playbackSpeed being
\* computed in binary floating point: where the sum is totalDuration to the
\* hundredth, it is below totalDuration when the rounding errors have left
\* it short, and at or above it when not.
EndReached(short) ==
  LET sum == currentTime + playbackSpeed \div 10
  IN sum > totalDuration \/ (sum = totalDuration /\ ~short)

\* What the callback leaves alone.
outsideTick ==
  <<words, totalDuration, textContent, timeline, currentWordIndex, playbackSpeed,
    wordGap, isLooping, motionVars, text, tokens, i, wordIndex, cleanText, gap, ids,
    repeatVars, validatorVars, layoutVars, collisionVars, resizeVars>>

\* The callback of the interval without the restart of a looping playback.
TimerTickNoLoop ==
  /\ pc \in CallbackPositions
  /\ isPlaying /\ totalDuration > 0
  /\ \E short \in BOOLEAN :
       IF EndReached(short)
       THEN /\ currentTime' = SeekTime(NewTime)
            /\ isPlaying' = FALSE
            /\ shortOfEnd' = FALSE
            /\ pc' = "paused"
       ELSE /\ currentTime' = SeekTime(NewTime)
            /\ shortOfEnd' = (NewTime = totalDuration)
            /\ pc' = "advanced"
            /\ UNCHANGED isPlaying
  /\ UNCHANGED outsideTick

\* The callback of the interval without the pause at the end.
TimerTickNoPause ==
  /\ pc \in CallbackPositions
  /\ isPlaying /\ totalDuration > 0
  /\ \E short \in BOOLEAN :
       IF EndReached(short) /\ isLooping
       THEN /\ currentTime' = SeekTime(0)
            /\ shortOfEnd' = FALSE
            /\ pc' = "restarted"
       ELSE /\ currentTime' = SeekTime(NewTime)
            /\ shortOfEnd' = (NewTime = totalDuration /\ ~EndReached(short))
            /\ pc' = "advanced"
  /\ UNCHANGED isPlaying
  /\ UNCHANGED outsideTick

\* The callback of the interval the effect sets while isPlaying and
\* totalDuration > 0: seekTo(newTime) and, at the end, seekTo(0) when
\* looping and pauseAnimation() when not.
TimerTick ==
  /\ pc \in CallbackPositions
  /\ isPlaying /\ totalDuration > 0
  /\ \E short \in BOOLEAN :
       IF EndReached(short)
       THEN IF isLooping
            THEN /\ currentTime' = SeekTime(0)
                 /\ shortOfEnd' = FALSE
                 /\ pc' = "restarted"
                 /\ UNCHANGED isPlaying
            ELSE /\ currentTime' = SeekTime(NewTime)
                 /\ shortOfEnd' = FALSE
                 /\ isPlaying' = FALSE
                 /\ pc' = "paused"
       ELSE /\ currentTime' = SeekTime(NewTime)
            /\ shortOfEnd' = (NewTime = totalDuration)
            /\ pc' = "advanced"
            /\ UNCHANGED isPlaying
  /\ UNCHANGED outsideTick

\* The loop button: setIsLooping(!isLooping).
setIsLooping ==
  /\ pc \in CallbackPositions
  /\ isLooping' = ~isLooping
  /\ UNCHANGED <<pc, words, totalDuration, textContent, timeline, currentWordIndex,
                 isPlaying, currentTime, playbackSpeed, wordGap, shortOfEnd, motionVars,
                 text, tokens, i, wordIndex, cleanText, gap, ids, repeatVars,
                 validatorVars, layoutVars, collisionVars, resizeVars>>

PlaybackNext ==
  \/ TimerTick
  \/ setIsLooping

\* The interval fires every 100 ms for as long as it is set.
PlaybackSpec == PlaybackInit /\ [][PlaybackNext]_vars /\ WF_vars(TimerTick)

\* Playing, in loop mode, something that lasts.
Looping == pc \in CallbackPositions /\ isPlaying /\ isLooping /\ totalDuration > 0

\* Playing once, something that lasts.
PlayingOnce == pc \in CallbackPositions /\ isPlaying /\ ~isLooping /\ totalDuration > 0

\* 0.1 * playbackSpeed, in hundredths of a second.
TickLength == playbackSpeed \div 10

\* The floating-point sum of a tick that comes to totalDuration to the
\* hundredth has stayed below it.
FellShort == currentTime' = totalDuration /\ shortOfEnd'

\* C25: while playing in loop mode with totalDuration > 0, a tick advances
\* currentTime by 0.1 * playbackSpeed, or, where that reaches totalDuration,
\* puts it back to 0; isPlaying stays true, so that playback never stops by
\* itself, and for as long as the mode is kept currentTime leaves 0 and
\* returns to 0 again and again.
C25_AutoLoop ==
  /\ [][(Looping /\ isLooping') =>
          /\ Looping'
          /\ IF currentTime + TickLength < totalDuration
             THEN currentTime' = currentTime + TickLength
             ELSE \/ currentTime' = 0 /\ pc' = "restarted"
                  \/ currentTime + TickLength = totalDuration /\ FellShort]_vars
  /\ [][Looping => isPlaying']_vars
  /\ []<>(~Looping \/ currentTime = 0)
  /\ []<>(~(Looping /\ TickLength < totalDuration) \/ currentTime > 0)

\* The tick of a looping playback of two segments that reached the end has
\* put currentTime back to 0.
C25_Witness ==
  /\ Looping
  /\ pc = "restarted"
  /\ currentTime = 0
  /\ TickLength < totalDuration
  /\ Len(words) = 2
  /\ wordGap = -200

\* C26: with looping disabled, isPlaying true and totalDuration > 0, and
\* nothing but timer ticks (the loop button is not pressed), playback comes
\* to isPlaying = false with currentTime = totalDuration, and until then
\* currentTime never decreases.
C26_PlaysToEnd ==
  /\ [](PlayingOnce =>
          <>(isLooping \/ (~isPlaying /\ currentTime = totalDuration /\ ~shortOfEnd)))
  /\ [][(PlayingOnce /\ ~isLooping') => currentTime' >= currentTime]_vars
  /\ [][(PlayingOnce /\ ~isLooping') =>
          \/ PlayingOnce' /\ currentTime' = currentTime + TickLength
          \/ ~isPlaying' /\ currentTime' = totalDuration /\ ~shortOfEnd']_vars

\* The tick of a playback without loop that reached the end has paused it
\* there.
C26_Witness ==
  /\ pc = "paused"
  /\ ~isLooping
  /\ ~isPlaying
  /\ totalDuration > 0
  /\ currentTime = totalDuration
  /\ Len(words) = 2
  /\ wordGap = 500

====
